---- MODULE Spec2Model ----
(***************************************************************************)
(* Cursor pagination with probe-row trimming (the five list endpoints and  *)
(* the useInfiniteQuery feeds that consume them) and the optimistic        *)
(* like / follow / bookmark toggles of the openlink social media app.      *)
(***************************************************************************)
EXTENDS Integers, Sequences, FiniteSets, TLC

\* ------------------------------------------------------------------ bounds
\* largest number of rows matching an endpoint's where clause
MaxRows == 22
\* most page requests of one feed query that may be on the wire at once
MaxInflight == 2
\* most clicks on toggle buttons in one run
MaxClicks == 3
\* posts (users) that carry a like, bookmark (follow) button
MaxTargets == 1
\* likes (followers) a target has from other users
MaxOthers == 1
\* rows created or deleted while a feed is open
MaxWrites == 2
\* notifications of one type from one issuer held by the store
MaxNotifications == 2
\* media records in the store
MaxMedia == 1

\* attachments uploaded while the cleanup runs
MaxUploads == 3

\* notifications created
MaxInbox == 3

\* posts and comments there are to delete
MaxEntities == 2

\* files handed to startUpload in one call
MaxFilesPerCall == 3

\* files picked in all calls
MaxFilesChosen == 7

\* runs of the chat client effect
MaxEffects == 3

\* ------------------------------------------------------- program constants
pageSizeForYou == 10
pageSizeFollowing == 10
pageSizeBookmarked == 10
pageSizeNotifications == 10
pageSizeComments == 5

\* attachments.length + files.length > 5
MaxAttachments == 5

\* ----------------------------------------------------------------- values
\* searchParams.get("cursor") || undefined, and nextCursor: null
Null == 0
\* an id that names no row of the table
GhostId == MaxRows + 1

Endpoints == {"for-you", "following", "bookmarked", "notifications", "comments"}

VARIABLES
  endpoint,    \* the list endpoint (and the feed query reading it)
  rows,        \* ids of the rows matching the endpoint's where clause, in createdAt order (oldest first)
  user,        \* validateRequest(): TRUE when the session yields a user
  pages,       \* useInfiniteQuery data.pages, in fetch order
  status,      \* useInfiniteQuery status
  isFetching,  \* useInfiniteQuery isFetching
  net,         \* page requests sent and not yet settled (their cursors)
  lastCall,    \* the last request a GET handler served, and what it did
  cache,       \* the query cache: queryKey -> LikeInfo | FollowerInfo | BookmarkInfo
  server,      \* queryKey -> whether the like / follow / bookmark row of the user exists
  muts,        \* the toggle mutations started so far, in click order
  writes,      \* rows created and deleted while the feed is open, and their onSuccess progress
  store,       \* the relational store behind the like, follow, bookmark and cleanup routes
  lastApi,     \* the last request one of those routes served, and what it did
  cleanup,     \* the upload cleanup request in flight: its position and the media it found
  inbox,       \* the notifications with recipient and read flag, the last notification request, and the client's unread count
  entities,    \* the posts and comments with their authors, and the last delete request
  upload,      \* useMediaUpload: the attachments, isUploading and the last startUpload call
  chat         \* useInitializeChatClient: the chatClient state and the connection of each effect run

feedVars == <<endpoint, rows, user, pages, status, isFetching, net, lastCall, writes>>

toggleVars == <<cache, server, muts>>

apiVars == <<store, lastApi>>

restVars == <<cleanup, inbox, entities, upload, chat>>

\* what the steps of each of these parts leave alone
exceptCleanup == <<feedVars, toggleVars, inbox, entities, upload, chat>>

exceptInbox == <<feedVars, toggleVars, apiVars, cleanup, entities, upload, chat>>

exceptEntities == <<feedVars, toggleVars, apiVars, cleanup, inbox, upload, chat>>

exceptUpload == <<feedVars, toggleVars, apiVars, cleanup, inbox, entities, chat>>

exceptChat == <<feedVars, toggleVars, apiVars, cleanup, inbox, entities, upload>>

vars == <<endpoint, rows, user, pages, status, isFetching, net, lastCall, cache, server, muts,
          writes, store, lastApi, cleanup, inbox, entities, upload, chat>>

\* ------------------------------------------------------------- sequences
Reverse(s) == [i \in 1..Len(s) |-> s[Len(s) + 1 - i]]

Min(a, b) == IF a < b THEN a ELSE b

Max(a, b) == IF a > b THEN a ELSE b

RECURSIVE Flatten(_)
Flatten(ss) == IF ss = <<>> THEN <<>> ELSE Head(ss) \o Flatten(Tail(ss))

Range(s) == {s[i] : i \in 1..Len(s)}

\* position of id x in sequence s, 0 when absent
IndexOf(s, x) == IF \E i \in 1..Len(s) : s[i] = x
                 THEN CHOOSE i \in 1..Len(s) : s[i] = x
                 ELSE 0

\* Array.prototype.slice(from, to) on 0-based indices
slice(s, from, to) == SubSeq(s, from + 1, Min(to, Len(s)))

\* ---------------------------------------------------------------- store
\* findMany with skip: 1, which leaves the cursor row out
findManySkipCursor(table, orderBy, take, cursor) ==
  LET ordered == IF orderBy = "asc" THEN table ELSE Reverse(table)
      pos     == IndexOf(ordered, cursor)
      window  == IF cursor = Null THEN ordered
                 ELSE IF pos = 0 THEN <<>>
                 ELSE IF take >= 0 THEN SubSeq(ordered, pos + 1, Len(ordered))
                 ELSE SubSeq(ordered, 1, pos - 1)
  IN IF take >= 0
     THEN SubSeq(window, 1, Min(take, Len(window)))
     ELSE SubSeq(window, Max(1, Len(window) + take + 1), Len(window))

\* prisma.<model>.findMany({ orderBy: { createdAt }, take, cursor }):
\* the rows in createdAt order, starting AT the cursor row when a cursor is
\* given (no skip is passed), limited to the first `take` rows, or for a
\* negative take to the last |take| rows ending AT the cursor row.
\* A cursor that names no row yields no rows.
findMany(table, orderBy, take, cursor) ==
  LET ordered == IF orderBy = "asc" THEN table ELSE Reverse(table)
      pos     == IndexOf(ordered, cursor)
      window  == IF cursor = Null THEN ordered
                 ELSE IF pos = 0 THEN <<>>
                 ELSE IF take >= 0 THEN SubSeq(ordered, pos, Len(ordered))
                 ELSE SubSeq(ordered, 1, pos)
  IN IF take >= 0
     THEN SubSeq(window, 1, Min(take, Len(window)))
     ELSE SubSeq(window, Max(1, Len(window) + take + 1), Len(window))

Unauthorized == [status |-> 401, items |-> <<>>, cursor |-> Null, retrieved |-> <<>>, queries |-> 0]

InternalServerError == [status |-> 500, items |-> <<>>, cursor |-> Null, retrieved |-> <<>>, queries |-> 1]

\* ------------------------------------------------------------ endpoints
\* for-you handler that hands out the id of the last returned post as cursor
GETForYouCursorLastReturned(table, loggedIn, cursor, dbOk) ==
  IF ~loggedIn THEN Unauthorized
  ELSE IF ~dbOk THEN InternalServerError
  ELSE LET posts == findMany(table, "desc", pageSizeForYou + 1, cursor)
           nextCursor == IF Len(posts) > pageSizeForYou THEN posts[pageSizeForYou] ELSE Null
       IN [status |-> 200, items |-> slice(posts, 0, pageSizeForYou), cursor |-> nextCursor,
           retrieved |-> posts, queries |-> 1]

\* GET /api/posts/for-you
GETForYou(table, loggedIn, cursor, dbOk) ==
  IF ~loggedIn THEN Unauthorized
  ELSE IF ~dbOk THEN InternalServerError
  ELSE LET posts == findMany(table, "desc", pageSizeForYou + 1, cursor)
           nextCursor == IF Len(posts) > pageSizeForYou THEN posts[pageSizeForYou + 1] ELSE Null
       IN [status |-> 200, items |-> slice(posts, 0, pageSizeForYou), cursor |-> nextCursor,
           retrieved |-> posts, queries |-> 1]

\* following handler that hands out the id of the last returned post as cursor
GETFollowingCursorLastReturned(table, loggedIn, cursor, dbOk) ==
  IF ~loggedIn THEN Unauthorized
  ELSE IF ~dbOk THEN InternalServerError
  ELSE LET posts == findMany(table, "desc", pageSizeFollowing + 1, cursor)
           nextCursor == IF Len(posts) > pageSizeFollowing THEN posts[pageSizeFollowing] ELSE Null
       IN [status |-> 200, items |-> slice(posts, 0, pageSizeFollowing), cursor |-> nextCursor,
           retrieved |-> posts, queries |-> 1]

\* GET /api/posts/following
GETFollowing(table, loggedIn, cursor, dbOk) ==
  IF ~loggedIn THEN Unauthorized
  ELSE IF ~dbOk THEN InternalServerError
  ELSE LET posts == findMany(table, "desc", pageSizeFollowing + 1, cursor)
           nextCursor == IF Len(posts) > pageSizeFollowing THEN posts[pageSizeFollowing + 1] ELSE Null
       IN [status |-> 200, items |-> slice(posts, 0, pageSizeFollowing), cursor |-> nextCursor,
           retrieved |-> posts, queries |-> 1]

\* bookmarked handler that tests bookmarks.length >= pageSize
GETBookmarkedAtLeast(table, loggedIn, cursor, dbOk) ==
  IF ~loggedIn THEN Unauthorized
  ELSE IF ~dbOk THEN InternalServerError
  ELSE LET bookmarks == findMany(table, "desc", pageSizeBookmarked + 1, cursor)
           nextCursor == IF Len(bookmarks) >= pageSizeBookmarked THEN bookmarks[pageSizeBookmarked] ELSE Null
       IN [status |-> 200, items |-> slice(bookmarks, 0, pageSizeBookmarked), cursor |-> nextCursor,
           retrieved |-> bookmarks, queries |-> 1]

\* GET /api/posts/bookmarked
GETBookmarked(table, loggedIn, cursor, dbOk) ==
  IF ~loggedIn THEN Unauthorized
  ELSE IF ~dbOk THEN InternalServerError
  ELSE LET bookmarks == findMany(table, "desc", pageSizeBookmarked + 1, cursor)
           nextCursor == IF Len(bookmarks) > pageSizeBookmarked THEN bookmarks[pageSizeBookmarked + 1] ELSE Null
       IN [status |-> 200, items |-> slice(bookmarks, 0, pageSizeBookmarked), cursor |-> nextCursor,
           retrieved |-> bookmarks, queries |-> 1]

\* notifications handler that forgets to slice the probe row off
GETNotificationsNoSlice(table, loggedIn, cursor, dbOk) ==
  IF ~loggedIn THEN Unauthorized
  ELSE IF ~dbOk THEN InternalServerError
  ELSE LET notifications == findMany(table, "desc", pageSizeNotifications + 1, cursor)
           nextCursor == IF Len(notifications) > pageSizeNotifications
                         THEN notifications[pageSizeNotifications + 1] ELSE Null
       IN [status |-> 200, items |-> notifications, cursor |-> nextCursor,
           retrieved |-> notifications, queries |-> 1]

\* GET /api/notifications
GETNotifications(table, loggedIn, cursor, dbOk) ==
  IF ~loggedIn THEN Unauthorized
  ELSE IF ~dbOk THEN InternalServerError
  ELSE LET notifications == findMany(table, "desc", pageSizeNotifications + 1, cursor)
           nextCursor == IF Len(notifications) > pageSizeNotifications
                         THEN notifications[pageSizeNotifications + 1] ELSE Null
       IN [status |-> 200, items |-> slice(notifications, 0, pageSizeNotifications), cursor |-> nextCursor,
           retrieved |-> notifications, queries |-> 1]

\* comments handler that slices like the post feeds do: slice(0, pageSize)
GETCommentsSliceHead(table, loggedIn, cursor, dbOk) ==
  IF ~loggedIn THEN Unauthorized
  ELSE IF ~dbOk THEN InternalServerError
  ELSE LET comments == findMany(table, "asc", -pageSizeComments - 1, cursor)
           previousCursor == IF Len(comments) > pageSizeComments THEN comments[1] ELSE Null
       IN [status |-> 200,
           items |-> slice(comments, 0, pageSizeComments),
           cursor |-> previousCursor, retrieved |-> comments, queries |-> 1]

\* GET /api/posts/[postId]/comments
GETComments(table, loggedIn, cursor, dbOk) ==
  IF ~loggedIn THEN Unauthorized
  ELSE IF ~dbOk THEN InternalServerError
  ELSE LET comments == findMany(table, "asc", -pageSizeComments - 1, cursor)
           previousCursor == IF Len(comments) > pageSizeComments THEN comments[1] ELSE Null
       IN [status |-> 200,
           items |-> IF Len(comments) > pageSizeComments THEN slice(comments, 1, Len(comments)) ELSE comments,
           cursor |-> previousCursor, retrieved |-> comments, queries |-> 1]

\* handlers that issue their query a second time when it failed
GETRetries(e, table, loggedIn, cursor, dbOk) ==
  LET res == CASE e = "for-you"       -> GETForYou(table, loggedIn, cursor, TRUE)
               [] e = "following"     -> GETFollowing(table, loggedIn, cursor, TRUE)
               [] e = "bookmarked"    -> GETBookmarked(table, loggedIn, cursor, TRUE)
               [] e = "notifications" -> GETNotifications(table, loggedIn, cursor, TRUE)
               [] e = "comments"      -> GETComments(table, loggedIn, cursor, TRUE)
  IN IF loggedIn /\ ~dbOk THEN [res EXCEPT !.queries = 2] ELSE res

\* the route table: the handler that serves endpoint e
GET(e, table, loggedIn, cursor, dbOk) ==
  CASE e = "for-you"       -> GETForYou(table, loggedIn, cursor, dbOk)
    [] e = "following"     -> GETFollowing(table, loggedIn, cursor, dbOk)
    [] e = "bookmarked"    -> GETBookmarked(table, loggedIn, cursor, dbOk)
    [] e = "notifications" -> GETNotifications(table, loggedIn, cursor, dbOk)
    [] e = "comments"      -> GETComments(table, loggedIn, cursor, dbOk)

\* ------------------------------------------------------------ feed query
\* getNextPageParam: lastPage.nextCursor (firstPage.previousCursor for comments)
getNextPageParam(ps) == ps[Len(ps)].cursor

hasNextPage == pages # <<>> /\ getNextPageParam(pages) # Null

\* useInfiniteQuery fetchNextPage(): one more request goes on the wire
fetchNextPage ==
  /\ Len(net) < MaxInflight
  /\ net' = Append(net, getNextPageParam(pages))
  /\ isFetching' = TRUE
  /\ UNCHANGED <<endpoint, rows, user, pages, status, lastCall>>
  /\ UNCHANGED <<writes, toggleVars, apiVars, restVars>>

\* the query's first fetch when the feed mounts (initialPageParam: null)
Mount ==
  /\ status = "pending" /\ ~isFetching /\ net = <<>>
  /\ net' = <<Null>>
  /\ isFetching' = TRUE
  /\ UNCHANGED <<endpoint, rows, user, pages, status, lastCall>>
  /\ UNCHANGED <<writes, toggleVars, apiVars, restVars>>

\* onBottomReached without the isFetching test
onBottomReachedUnguarded ==
  /\ endpoint # "comments"
  /\ status = "success"
  /\ hasNextPage
  /\ fetchNextPage

\* the sentinel of InfiniteScrollContainer comes into view:
\* onBottomReached={() => hasNextPage && !isFetching && fetchNextPage()}
onBottomReached ==
  /\ endpoint # "comments"
  /\ status = "success"
  /\ hasNextPage /\ ~isFetching
  /\ fetchNextPage

\* the "Load previous comments" button: rendered when hasNextPage,
\* disabled={isFetching}, onClick={() => fetchNextPage()}
LoadPreviousComments ==
  /\ endpoint = "comments"
  /\ hasNextPage
  /\ ~isFetching
  /\ fetchNextPage

\* a feed paged by offset: the page parameter is the number of items the
\* client has loaded, and the server skips that many rows
queryFnByOffset ==
  /\ net # <<>>
  /\ \E dbOk \in BOOLEAN :
       LET ps      == IF endpoint = "comments" THEN pageSizeComments ELSE pageSizeForYou
           ordered == Reverse(rows)
           off     == Head(net)
           got     == SubSeq(ordered, off + 1, Min(off + ps + 1, Len(ordered)))
           page    == slice(got, 0, ps)
           res     == IF ~user THEN Unauthorized
                      ELSE IF ~dbOk THEN InternalServerError
                      ELSE [status |-> 200,
                            items |-> IF endpoint = "comments" THEN Reverse(page) ELSE page,
                            cursor |-> IF Len(got) > ps THEN off + ps ELSE Null,
                            retrieved |-> got, queries |-> 1]
       IN /\ lastCall' = [cursor |-> Head(net), res |-> res]
          /\ IF res.status = 200
             THEN /\ pages' = Append(pages, [items |-> res.items, cursor |-> res.cursor])
                  /\ status' = "success"
             ELSE /\ status' = "error"
                  /\ UNCHANGED pages
  /\ net' = Tail(net)
  /\ isFetching' = (Tail(net) # <<>>)
  /\ UNCHANGED <<endpoint, rows, user>>
  /\ UNCHANGED <<writes, toggleVars, apiVars, restVars>>

\* one page request is served by its GET handler and the queryFn settles
queryFn ==
  /\ net # <<>>
  /\ \E dbOk \in BOOLEAN :
       LET res == GET(endpoint, rows, user, Head(net), dbOk)
       IN /\ lastCall' = [cursor |-> Head(net), res |-> res]
          /\ IF res.status = 200
             THEN /\ pages' = Append(pages, [items |-> res.items, cursor |-> res.cursor])
                  /\ status' = "success"
             ELSE /\ status' = "error"
                  /\ UNCHANGED pages
  /\ net' = Tail(net)
  /\ isFetching' = (Tail(net) # <<>>)
  /\ UNCHANGED <<endpoint, rows, user>>
  /\ UNCHANGED <<writes, toggleVars, apiVars, restVars>>

\* any HTTP client calls the endpoint with a cursor of its choosing
Request ==
  \E c \in 0..GhostId, dbOk \in BOOLEAN :
    /\ c <= Len(rows) \/ c = GhostId
    /\ lastCall' = [cursor |-> c, res |-> GET(endpoint, rows, user, c, dbOk)]
    /\ UNCHANGED <<endpoint, rows, user, pages, status, isFetching, net>>
    /\ UNCHANGED <<writes, toggleVars, apiVars, restVars>>

\* the ids of n rows in createdAt order: ids need not follow creation time
Table(n, k) ==
  [i \in 1..n |-> CASE k = 0 -> i
                    [] k = 1 -> n + 1 - i
                    [] k = 2 -> IF 2 * i <= n THEN 2 * i ELSE 2 * (i - n \div 2) - 1]

NoCall == [cursor |-> Null, res |-> [status |-> 0, items |-> <<>>, cursor |-> Null, retrieved |-> <<>>, queries |-> 0]]

\* ------------------------------------------------- optimistic toggles
Kinds == {"like-info", "follower-info", "bookmark-info"}

\* const queryKey: QueryKey = ["like-info", postId] (and the other two)
Keys == Kinds \X (1..MaxTargets)

\* initialState / initialData of the button for key k: what the server
\* rendered, flag = the user's row exists, others = rows of other users
initialState(k, flag, others) ==
  CASE k[1] = "like-info"     -> [likes |-> others + (IF flag THEN 1 ELSE 0), isLikedByUser |-> flag]
    [] k[1] = "follower-info" -> [followers |-> others + (IF flag THEN 1 ELSE 0), isFollowedByUser |-> flag]
    [] k[1] = "bookmark-info" -> [isBookmarkedByUser |-> flag]

\* data.isLikedByUser / data.isFollowedByUser / data.isBookmarkedByUser
flagOf(k, data) ==
  CASE k[1] = "like-info"     -> data.isLikedByUser
    [] k[1] = "follower-info" -> data.isFollowedByUser
    [] k[1] = "bookmark-info" -> data.isBookmarkedByUser

\* LikeButton onMutate that always counts one like more
LikeButtonOptimisticAlwaysAdds(previousState) ==
  [likes |-> previousState.likes + 1,
   isLikedByUser |-> ~previousState.isLikedByUser]

\* LikeButton onMutate: the value written by setQueryData
LikeButtonOptimistic(previousState) ==
  [likes |-> previousState.likes + (IF previousState.isLikedByUser THEN -1 ELSE 1),
   isLikedByUser |-> ~previousState.isLikedByUser]

\* FollowButton onMutate that always counts one follower less
FollowButtonOptimisticAlwaysSubtracts(previousState) ==
  [followers |-> previousState.followers - 1,
   isFollowedByUser |-> ~previousState.isFollowedByUser]

\* FollowButton onMutate: the value written by setQueryData
FollowButtonOptimistic(previousState) ==
  [followers |-> previousState.followers + (IF previousState.isFollowedByUser THEN -1 ELSE 1),
   isFollowedByUser |-> ~previousState.isFollowedByUser]

\* BookmarkButton onMutate: the value written by setQueryData
BookmarkButtonOptimistic(previousState) ==
  [isBookmarkedByUser |-> ~previousState.isBookmarkedByUser]

Optimistic(k, previousState) ==
  CASE k[1] = "like-info"     -> LikeButtonOptimistic(previousState)
    [] k[1] = "follower-info" -> FollowButtonOptimistic(previousState)
    [] k[1] = "bookmark-info" -> BookmarkButtonOptimistic(previousState)

\* context before onMutate has returned
NoState == [none |-> TRUE]

\* a mutation that has been started and has not settled
Pending(m) == m.pc \notin {"success", "error"}

\* onClick={() => mutate()}: the button carries no disabled attribute.
\* mutationFn closes over the data of the render that was clicked. The
\* mutation runs onMutate up to its first await:
\* await queryClient.cancelQueries({ queryKey })
mutate(k) ==
  /\ Len(muts) < MaxClicks
  /\ muts' = Append(muts, [key |-> k, pc |-> "cancelled",
                           method |-> IF flagOf(k, cache[k]) THEN "DELETE" ELSE "POST",
                           previousState |-> NoState, before |-> NoState,
                           log |-> <<"cancelQueries">>,
                           toasts |-> IF k[1] = "bookmark-info" THEN 1 ELSE 0,
                           alone |-> \A j \in 1..Len(muts) : muts[j].key = k => ~Pending(muts[j])])
  /\ UNCHANGED <<cache, server>>
  /\ UNCHANGED <<feedVars, apiVars, restVars>>

\* onMutate that writes every query of the target, whatever its kind
onMutateWritesAllOfTarget(i) ==
  /\ i \in 1..Len(muts)
  /\ muts[i].pc = "cancelled"
  /\ LET k == muts[i].key
         previousState == cache[k]
     IN /\ cache' = [q \in Keys |-> IF q[2] = k[2] THEN Optimistic(q, cache[q]) ELSE cache[q]]
        /\ muts' = [muts EXCEPT ![i].pc = "written",
                                ![i].previousState = previousState,
                                ![i].before = cache[k],
                                ![i].log = @ \o <<"getQueryData", "setQueryData">>]
  /\ UNCHANGED server
  /\ UNCHANGED <<feedVars, apiVars, restVars>>

\* onMutate after the await: previousState = getQueryData(queryKey); setQueryData(...);
\* return { previousState }
onMutate(i) ==
  /\ i \in 1..Len(muts)
  /\ muts[i].pc = "cancelled"
  /\ LET k == muts[i].key
         previousState == cache[k]
     IN /\ cache' = [cache EXCEPT ![k] = Optimistic(k, previousState)]
        /\ muts' = [muts EXCEPT ![i].pc = "written",
                                ![i].previousState = previousState,
                                ![i].before = cache[k],
                                ![i].log = @ \o <<"getQueryData", "setQueryData">>]
  /\ UNCHANGED server
  /\ UNCHANGED <<feedVars, apiVars, restVars>>

\* a mutationFn that sends its request a second time
mutationFnSendsTwice(i) ==
  /\ i \in 1..Len(muts)
  /\ muts[i].pc = "written"
  /\ muts' = [muts EXCEPT ![i].pc = "wire", ![i].log = @ \o <<"mutationFn", "mutationFn">>]
  /\ UNCHANGED <<cache, server>>
  /\ UNCHANGED <<feedVars, apiVars, restVars>>

\* mutationFn: kyInstance.delete(...) or kyInstance.post(...) goes on the wire
mutationFn(i) ==
  /\ i \in 1..Len(muts)
  /\ muts[i].pc = "written"
  /\ muts' = [muts EXCEPT ![i].pc = "wire", ![i].log = Append(@, "mutationFn")]
  /\ UNCHANGED <<cache, server>>
  /\ UNCHANGED <<feedVars, apiVars, restVars>>

\* a success handler that applies the toggle a second time
requestSucceedsWritesAgain(i) ==
  /\ i \in 1..Len(muts)
  /\ muts[i].pc = "wire"
  /\ server' = [server EXCEPT ![muts[i].key] = (muts[i].method = "POST")]
  /\ cache' = [cache EXCEPT ![muts[i].key] = Optimistic(muts[i].key, @)]
  /\ muts' = [muts EXCEPT ![i].pc = "success"]
  /\ UNCHANGED <<feedVars, apiVars, restVars>>

\* the POST / DELETE handler upserts / deletes the row and answers 200;
\* useMutation has no onSuccess / onSettled: nothing else happens
requestSucceeds(i) ==
  /\ i \in 1..Len(muts)
  /\ muts[i].pc = "wire"
  /\ server' = [server EXCEPT ![muts[i].key] = (muts[i].method = "POST")]
  /\ muts' = [muts EXCEPT ![i].pc = "success"]
  /\ UNCHANGED cache
  /\ UNCHANGED <<feedVars, apiVars, restVars>>

\* an error handler that undoes the toggle on whatever the cache holds now
onErrorTogglesBack(i) ==
  /\ i \in 1..Len(muts)
  /\ muts[i].pc = "wire"
  /\ \E applied \in BOOLEAN :
       server' = IF applied THEN [server EXCEPT ![muts[i].key] = (muts[i].method = "POST")] ELSE server
  /\ cache' = [cache EXCEPT ![muts[i].key] = Optimistic(muts[i].key, @)]
  /\ muts' = [muts EXCEPT ![i].pc = "error", ![i].toasts = @ + 1,
                          ![i].log = Append(@, "onError:setQueryData")]
  /\ UNCHANGED <<feedVars, apiVars, restVars>>

\* the network call fails (the request or its answer is lost, or the
\* handler answers 500): onError(error, variables, context) writes
\* context.previousState back and shows the destructive toast
onError(i) ==
  /\ i \in 1..Len(muts)
  /\ muts[i].pc = "wire"
  /\ \E applied \in BOOLEAN :
       server' = IF applied THEN [server EXCEPT ![muts[i].key] = (muts[i].method = "POST")] ELSE server
  /\ cache' = [cache EXCEPT ![muts[i].key] = muts[i].previousState]
  /\ muts' = [muts EXCEPT ![i].pc = "error", ![i].toasts = @ + 1,
                          ![i].log = Append(@, "onError:setQueryData")]
  /\ UNCHANGED <<feedVars, apiVars, restVars>>

\* ------------------------------------------- writes while a feed is open
\* the query key of the feed that reads endpoint e
queryKey(e) ==
  CASE e = "for-you"       -> <<"posts-feed", "for-you">>
    [] e = "following"     -> <<"posts-feed", "following">>
    [] e = "bookmarked"    -> <<"post-feed", "bookmarks">>
    [] e = "notifications" -> <<"notifications">>
    [] e = "comments"      -> <<"comments", "postId">>

\* a query filter's queryKey matches the queries whose key starts with it
partialMatchKey(key, filterKey) ==
  /\ Len(filterKey) <= Len(key)
  /\ \A i \in 1..Len(filterKey) : key[i] = filterKey[i]

\* the feed query is in the query cache: its component has mounted
mounted == status # "pending" \/ net # <<>>

MaxOf(S) == CHOOSE m \in S : \A x \in S : x <= m

\* the id of the next row created
FreshId == 1 + MaxOf(Range(rows) \cup {writes[i].id : i \in 1..Len(writes)} \cup {0})

\* the posts the logged-in user wrote: every seventh post, and the posts
\* submitted while the feed is open
OwnEvery == 7

Own(id) ==
  \/ id % OwnEvery = 0
  \/ \E i \in 1..Len(writes) : writes[i].op = "submitPost" /\ writes[i].id = id

PostFeeds == {"for-you", "following", "bookmarked"}

\* another session adds a row to the endpoint's dataset (a post, a
\* bookmark, a notification or a comment is created): it is the newest row
createRow ==
   /\ Len(writes) < MaxWrites
  /\ rows' = Append(rows, FreshId)
  /\ writes' = Append(writes, [op |-> "create", id |-> FreshId, pc |-> "done", at |-> Len(pages)])
  /\ UNCHANGED <<endpoint, user, pages, status, isFetching, net, lastCall>>
  /\ UNCHANGED <<toggleVars, apiVars, restVars>>

\* the server action submitPost, called by the mutation of the post
\* editor: the new post joins the for-you dataset (the following and
\* bookmarked datasets hold no post of the user's own making)
submitPost ==
  /\ endpoint \in PostFeeds
   /\ Len(writes) < MaxWrites
  /\ \E dbOk \in BOOLEAN :
       IF user /\ dbOk
       THEN /\ rows' = IF endpoint = "for-you" THEN Append(rows, FreshId) ELSE rows
            /\ writes' = Append(writes, [op |-> "submitPost", id |-> FreshId, pc |-> "created", at |-> Len(pages)])
       ELSE /\ writes' = Append(writes, [op |-> "submitPost", id |-> FreshId, pc |-> "error", at |-> Len(pages)])
            /\ UNCHANGED rows
  /\ UNCHANGED <<endpoint, user, pages, status, isFetching, net, lastCall>>
  /\ UNCHANGED <<toggleVars, apiVars, restVars>>

\* useSubmitPostMutation onSuccess: cancelQueries, setQueriesData and
\* invalidateQueries over the filter { queryKey: ["post-feed"], predicate }
useSubmitPostMutationOnSuccess(i) ==
  /\ i \in 1..Len(writes)
  /\ writes[i].op = "submitPost" /\ writes[i].pc = "created"
  /\ LET key == queryKey(endpoint)
         matches == /\ mounted
                    /\ partialMatchKey(key, <<"post-feed">>)
                    /\ "for-you" \in Range(key) \/ ("user-posts" \in Range(key) /\ "userId" \in Range(key))
     IN IF matches
        THEN IF pages # <<>>
             THEN /\ pages' = [pages EXCEPT ![1].items = <<writes[i].id>> \o @]
                  /\ net' = <<>>
                  /\ isFetching' = FALSE
             ELSE /\ net' = <<Null>>
                  /\ isFetching' = TRUE
                  /\ UNCHANGED pages
        ELSE UNCHANGED <<pages, net, isFetching>>
  /\ writes' = [writes EXCEPT ![i].pc = "done"]
  /\ UNCHANGED <<endpoint, rows, user, status, lastCall>>
  /\ UNCHANGED <<toggleVars, apiVars, restVars>>

\* the server action deletePost on a post of the user's own: the row
\* leaves the dataset
deletePost ==
  /\ endpoint \in PostFeeds
  /\ Len(writes) < MaxWrites
  /\ \E id \in Range(rows), dbOk \in BOOLEAN :
       /\ Own(id)
       /\ IF user /\ dbOk
          THEN /\ rows' = SelectSeq(rows, LAMBDA r : r # id)
               /\ writes' = Append(writes, [op |-> "deletePost", id |-> id, pc |-> "deleted", at |-> Len(pages)])
          ELSE /\ writes' = Append(writes, [op |-> "deletePost", id |-> id, pc |-> "error", at |-> Len(pages)])
               /\ UNCHANGED rows
  /\ UNCHANGED <<endpoint, user, pages, status, isFetching, net, lastCall>>
  /\ UNCHANGED <<toggleVars, apiVars, restVars>>

\* useDeletePostMutation onSuccess: cancelQueries and setQueriesData over
\* the filter { queryKey: ["post-feed"] }
useDeletePostMutationOnSuccess(i) ==
  /\ i \in 1..Len(writes)
  /\ writes[i].op = "deletePost" /\ writes[i].pc = "deleted"
  /\ IF mounted /\ partialMatchKey(queryKey(endpoint), <<"post-feed">>)
     THEN /\ pages' = [p \in 1..Len(pages) |->
                         [items  |-> SelectSeq(pages[p].items, LAMBDA x : x # writes[i].id),
                          cursor |-> pages[p].cursor]]
          /\ net' = <<>>
          /\ isFetching' = FALSE
     ELSE UNCHANGED <<pages, net, isFetching>>
  /\ writes' = [writes EXCEPT ![i].pc = "done"]
  /\ UNCHANGED <<endpoint, rows, user, status, lastCall>>
  /\ UNCHANGED <<toggleVars, apiVars, restVars>>

\* the server action submitComment, called by the mutation of the comment
\* input: the new comment is the newest comment of the post
submitComment ==
  /\ endpoint = "comments"
   /\ Len(writes) < MaxWrites
  /\ \E dbOk \in BOOLEAN :
       IF user /\ dbOk
       THEN /\ rows' = Append(rows, FreshId)
            /\ writes' = Append(writes, [op |-> "submitComment", id |-> FreshId, pc |-> "created", at |-> Len(pages)])
       ELSE /\ writes' = Append(writes, [op |-> "submitComment", id |-> FreshId, pc |-> "error", at |-> Len(pages)])
            /\ UNCHANGED rows
  /\ UNCHANGED <<endpoint, user, pages, status, isFetching, net, lastCall>>
  /\ UNCHANGED <<toggleVars, apiVars, restVars>>

\* useSubmitCommentMutation onSuccess: cancelQueries, setQueryData and
\* invalidateQueries on ["comments", postId]
useSubmitCommentMutationOnSuccess(i) ==
  /\ i \in 1..Len(writes)
  /\ writes[i].op = "submitComment" /\ writes[i].pc = "created"
  /\ IF mounted
     THEN IF pages # <<>>
          THEN /\ pages' = [pages EXCEPT ![1].items = <<writes[i].id>> \o @]
               /\ net' = <<>>
               /\ isFetching' = FALSE
          ELSE /\ net' = <<Null>>
               /\ isFetching' = TRUE
               /\ UNCHANGED pages
     ELSE UNCHANGED <<pages, net, isFetching>>
  /\ writes' = [writes EXCEPT ![i].pc = "done"]
  /\ UNCHANGED <<endpoint, rows, user, status, lastCall>>
  /\ UNCHANGED <<toggleVars, apiVars, restVars>>

\* ------------------------------------------------------------ the store
\* the two users of the store: the author of the post, whose profile is
\* also the one that is followed, and one other user
Users == {"owner", "other"}

\* validateRequest() yields { user: null }
NoUser == "null"

ThePost == "post"
MissingPost == "missing"
MissingUser == "nobody"

NotificationKeys == {"LIKE", "FOLLOW"} \X Users

\* the media records there can be: linked to no post or to the post, and
\* older than a day or not
NoPost == "null"

MediaRecords == [id : 1..MaxMedia, postId : {NoPost, ThePost}, old : BOOLEAN]

\* the (user, target) pairs a relation row can have: likes and bookmarks
\* of the post, follows of its owner
LikePairs == Users \X {ThePost}
FollowPairs == Users \X {"owner"}

\* each relation holds, per pair, the number of its rows
EmptyStore ==
  [posts |-> {ThePost}, likes |-> [p \in LikePairs |-> 0],
   bookmarks |-> [p \in LikePairs |-> 0], follows |-> [p \in FollowPairs |-> 0],
   notifications |-> [k \in NotificationKeys |-> 0], media |-> {}]

NoApiCall ==
  [route |-> "none", method |-> "none", user |-> NoUser, target |-> NoPost,
   secret |-> FALSE, status |-> 0, queries |-> 0, changed |-> FALSE]

\* an upsert that inserts a row whether or not one exists
upsertAlwaysCreates(table, key) ==
  [table EXCEPT ![key] = @ + 1]

\* upsert({ where: { userId_postId }, create: { userId, postId }, update: {} }):
\* a row is created when the pair has none; an existing row is left as it is
upsert(table, key) ==
  [table EXCEPT ![key] = IF @ = 0 THEN 1 ELSE @]

\* deleteMany({ where: { userId, postId } }): every row of the pair goes
deleteMany(table, key) ==
  [table EXCEPT ![key] = 0]

\* one statement of a prisma call, applied to the store
applyOp(st, op) ==
  CASE op.kind = "like.upsert"             -> [st EXCEPT !.likes = upsert(@, <<op.user, op.target>>)]
    [] op.kind = "like.deleteMany"         -> [st EXCEPT !.likes = deleteMany(@, <<op.user, op.target>>)]
    [] op.kind = "bookmark.upsert"         -> [st EXCEPT !.bookmarks = upsert(@, <<op.user, op.target>>)]
    [] op.kind = "bookmark.deleteMany"     -> [st EXCEPT !.bookmarks = deleteMany(@, <<op.user, op.target>>)]
    [] op.kind = "follow.upsert"           -> [st EXCEPT !.follows = upsert(@, <<op.user, op.target>>)]
    [] op.kind = "follow.deleteMany"       -> [st EXCEPT !.follows = deleteMany(@, <<op.user, op.target>>)]
    [] op.kind = "notification.create"     -> [st EXCEPT !.notifications[<<op.type, op.user>>] = @ + 1]
    [] op.kind = "notification.deleteMany" -> [st EXCEPT !.notifications[<<op.type, op.user>>] = 0]
    [] op.kind = "media.deleteMany"        -> [st EXCEPT !.media = {m \in @ : m.id \notin op.ids}]

RECURSIVE applyAll(_, _)
applyAll(st, ops) == IF ops = <<>> THEN st ELSE applyAll(applyOp(st, Head(ops)), Tail(ops))

\* statements run one by one, each committed on its own: a failure of
\* statement failAt leaves the statements before it applied
transactionNotAtomic(st, ops, failAt) ==
  IF failAt \in 1..Len(ops)
  THEN [ok |-> FALSE, store |-> applyAll(st, SubSeq(ops, 1, failAt - 1))]
  ELSE [ok |-> TRUE, store |-> applyAll(st, ops)]

\* prisma.$transaction([...]): all statements are applied, or, when
\* statement failAt fails, none is
transaction(st, ops, failAt) ==
  IF failAt \in 1..Len(ops)
  THEN [ok |-> FALSE, store |-> st]
  ELSE [ok |-> TRUE, store |-> applyAll(st, ops)]

\* what a handler answers: the status, the store it leaves, and the
\* number of statements it sent to the store
Answer(code, st, queries) == [status |-> code, store |-> st, queries |-> queries]

\* GET /api/posts/[postId]/likes
likesGET(st, loggedInUser, postId, failAt) ==
  IF loggedInUser = NoUser THEN Answer(401, st, 0)
  ELSE IF failAt = 1 THEN Answer(500, st, 1)
  ELSE IF postId \notin st.posts THEN Answer(404, st, 1)
  ELSE Answer(200, st, 1)

\* a like handler that looks the post up before it asks for the session
likesPOSTLooksUpFirst(st, loggedInUser, postId, failAt) ==
  IF failAt = 1 THEN Answer(500, st, 1)
  ELSE IF loggedInUser = NoUser THEN Answer(401, st, 1)
  ELSE IF postId \notin st.posts THEN Answer(404, st, 1)
  ELSE LET ops == <<[kind |-> "like.upsert", user |-> loggedInUser, target |-> postId]>>
                  \o (IF loggedInUser # "owner"
                      THEN <<[kind |-> "notification.create", type |-> "LIKE", user |-> loggedInUser]>>
                      ELSE <<>>)
           tx == transaction(st, ops, failAt - 1)
       IN IF tx.ok THEN Answer(200, tx.store, 1 + Len(ops)) ELSE Answer(500, tx.store, failAt)

\* POST /api/posts/[postId]/likes
likesPOST(st, loggedInUser, postId, failAt) ==
  IF loggedInUser = NoUser THEN Answer(401, st, 0)
  ELSE IF failAt = 1 THEN Answer(500, st, 1)
  ELSE IF postId \notin st.posts THEN Answer(404, st, 1)
  ELSE LET ops == <<[kind |-> "like.upsert", user |-> loggedInUser, target |-> postId]>>
                  \o (IF loggedInUser # "owner"
                      THEN <<[kind |-> "notification.create", type |-> "LIKE", user |-> loggedInUser]>>
                      ELSE <<>>)
           tx == transaction(st, ops, failAt - 1)
       IN IF tx.ok THEN Answer(200, tx.store, 1 + Len(ops)) ELSE Answer(500, tx.store, failAt)

\* DELETE /api/posts/[postId]/likes
likesDELETE(st, loggedInUser, postId, failAt) ==
  IF loggedInUser = NoUser THEN Answer(401, st, 0)
  ELSE IF failAt = 1 THEN Answer(500, st, 1)
  ELSE IF postId \notin st.posts THEN Answer(404, st, 1)
  ELSE LET ops == <<[kind |-> "like.deleteMany", user |-> loggedInUser, target |-> postId],
                    [kind |-> "notification.deleteMany", type |-> "LIKE", user |-> loggedInUser]>>
           tx == transaction(st, ops, failAt - 1)
       IN IF tx.ok THEN Answer(200, tx.store, 1 + Len(ops)) ELSE Answer(500, tx.store, failAt)

\* GET /api/posts/[postId]/bookmark
bookmarkGET(st, loggedInUser, postId, failAt) ==
  IF loggedInUser = NoUser THEN Answer(401, st, 0)
  ELSE IF failAt = 1 THEN Answer(500, st, 1)
  ELSE Answer(200, st, 1)

\* POST /api/posts/[postId]/bookmark: the upsert of a bookmark for a post
\* that does not exist breaks the foreign key
bookmarkPOST(st, loggedInUser, postId, failAt) ==
  IF loggedInUser = NoUser THEN Answer(401, st, 0)
  ELSE IF failAt = 1 \/ postId \notin st.posts THEN Answer(500, st, 1)
  ELSE Answer(200, applyOp(st, [kind |-> "bookmark.upsert", user |-> loggedInUser, target |-> postId]), 1)

\* DELETE /api/posts/[postId]/bookmark
bookmarkDELETE(st, loggedInUser, postId, failAt) ==
  IF loggedInUser = NoUser THEN Answer(401, st, 0)
  ELSE IF failAt = 1 THEN Answer(500, st, 1)
  ELSE Answer(200, applyOp(st, [kind |-> "bookmark.deleteMany", user |-> loggedInUser, target |-> postId]), 1)

\* GET /api/users/[userId]/followers
followersGET(st, loggedInUser, userId, failAt) ==
  IF loggedInUser = NoUser THEN Answer(401, st, 0)
  ELSE IF failAt = 1 THEN Answer(500, st, 1)
  ELSE IF userId \notin Users THEN Answer(404, st, 1)
  ELSE Answer(200, st, 1)

\* POST /api/users/[userId]/followers: following a user that does not
\* exist breaks the foreign key of the first statement
followersPOST(st, loggedInUser, userId, failAt) ==
  IF loggedInUser = NoUser THEN Answer(401, st, 0)
  ELSE LET ops == <<[kind |-> "follow.upsert", user |-> loggedInUser, target |-> userId],
                    [kind |-> "notification.create", type |-> "FOLLOW", user |-> loggedInUser]>>
           tx == transaction(st, ops, IF userId \notin Users THEN 1 ELSE failAt)
       IN IF tx.ok THEN Answer(200, tx.store, Len(ops))
          ELSE Answer(500, tx.store, IF userId \notin Users THEN 1 ELSE failAt)

\* DELETE /api/users/[userId]/followers
followersDELETE(st, loggedInUser, userId, failAt) ==
  IF loggedInUser = NoUser THEN Answer(401, st, 0)
  ELSE LET ops == <<[kind |-> "follow.deleteMany", user |-> loggedInUser, target |-> userId],
                    [kind |-> "notification.deleteMany", type |-> "FOLLOW", user |-> loggedInUser]>>
           tx == transaction(st, ops, failAt)
       IN IF tx.ok THEN Answer(200, tx.store, Len(ops)) ELSE Answer(500, tx.store, failAt)

\* GET /api/clear-uploads: authorised by the Authorization header alone
clearUploadsGET(st, authHeaderOk, production, failAt) ==
  IF ~authHeaderOk THEN Answer(401, st, 0)
  ELSE IF failAt = 1 THEN Answer(500, st, 1)
  ELSE LET unusedMedia == {m \in st.media : m.postId = NoPost /\ (production => m.old)}
       IN IF failAt = 2 THEN Answer(500, st, 2)
          ELSE Answer(200, applyOp(st, [kind |-> "media.deleteMany", ids |-> {m.id : m \in unusedMedia}]), 2)

\* the statement of a request that fails, 0 when none does, for a handler
\* that sends up to n statements
FailAt(n) == 0..n

\* the handler's writes keep the notification counts within the bound
WithinBounds(res) == \A k \in NotificationKeys : res.store.notifications[k] <= MaxNotifications

\* the record of a served request
Called(route, method, u, target, secret, res) ==
  [route |-> route, method |-> method, user |-> u, target |-> target, secret |-> secret,
   status |-> res.status, queries |-> res.queries, changed |-> res.store # store]

\* who sends a like request: the owner of the post, the other user, or
\* somebody without a session
Requesters == Users \cup {NoUser}

\* who sends the other requests: the other user, or somebody without a session
Visitors == {"other", NoUser}

RequestLikesGET ==
  \E u \in Requesters, p \in {ThePost, MissingPost}, f \in FailAt(1) :
    LET res == likesGET(store, u, p, f)
    IN /\ WithinBounds(res)
       /\ store' = res.store
       /\ lastApi' = Called("likes", "GET", u, p, FALSE, res)
       /\ UNCHANGED <<feedVars, toggleVars, restVars>>

RequestLikesPOST ==
  \E u \in Requesters, p \in {ThePost, MissingPost}, f \in FailAt(3) :
    LET res == likesPOST(store, u, p, f)
    IN /\ WithinBounds(res)
       /\ store' = res.store
       /\ lastApi' = Called("likes", "POST", u, p, FALSE, res)
       /\ UNCHANGED <<feedVars, toggleVars, restVars>>

RequestLikesDELETE ==
  \E u \in Requesters, p \in {ThePost, MissingPost}, f \in FailAt(3) :
    LET res == likesDELETE(store, u, p, f)
    IN /\ WithinBounds(res)
       /\ store' = res.store
       /\ lastApi' = Called("likes", "DELETE", u, p, FALSE, res)
       /\ UNCHANGED <<feedVars, toggleVars, restVars>>

RequestBookmarkGET ==
  \E u \in Visitors, p \in {ThePost, MissingPost}, f \in FailAt(1) :
    LET res == bookmarkGET(store, u, p, f)
    IN /\ WithinBounds(res)
       /\ store' = res.store
       /\ lastApi' = Called("bookmark", "GET", u, p, FALSE, res)
       /\ UNCHANGED <<feedVars, toggleVars, restVars>>

RequestBookmarkPOST ==
  \E u \in Visitors, p \in {ThePost, MissingPost}, f \in FailAt(1) :
    LET res == bookmarkPOST(store, u, p, f)
    IN /\ WithinBounds(res)
       /\ store' = res.store
       /\ lastApi' = Called("bookmark", "POST", u, p, FALSE, res)
       /\ UNCHANGED <<feedVars, toggleVars, restVars>>

RequestBookmarkDELETE ==
  \E u \in Visitors, p \in {ThePost, MissingPost}, f \in FailAt(1) :
    LET res == bookmarkDELETE(store, u, p, f)
    IN /\ WithinBounds(res)
       /\ store' = res.store
       /\ lastApi' = Called("bookmark", "DELETE", u, p, FALSE, res)
       /\ UNCHANGED <<feedVars, toggleVars, restVars>>

RequestFollowersGET ==
  \E u \in Visitors, t \in {"owner", MissingUser}, f \in FailAt(1) :
    LET res == followersGET(store, u, t, f)
    IN /\ WithinBounds(res)
       /\ store' = res.store
       /\ lastApi' = Called("followers", "GET", u, t, FALSE, res)
       /\ UNCHANGED <<feedVars, toggleVars, restVars>>

RequestFollowersPOST ==
  \E u \in Visitors, t \in {"owner", MissingUser}, f \in FailAt(2) :
    LET res == followersPOST(store, u, t, f)
    IN /\ WithinBounds(res)
       /\ store' = res.store
       /\ lastApi' = Called("followers", "POST", u, t, FALSE, res)
       /\ UNCHANGED <<feedVars, toggleVars, restVars>>

RequestFollowersDELETE ==
  \E u \in Visitors, t \in {"owner", MissingUser}, f \in FailAt(2) :
    LET res == followersDELETE(store, u, t, f)
    IN /\ WithinBounds(res)
       /\ store' = res.store
       /\ lastApi' = Called("followers", "DELETE", u, t, FALSE, res)
       /\ UNCHANGED <<feedVars, toggleVars, restVars>>

RequestClearUploads ==
  \E u \in Visitors, authHeaderOk \in BOOLEAN, production \in BOOLEAN, f \in FailAt(2) :
    LET res == clearUploadsGET(store, authHeaderOk, production, f)
    IN /\ WithinBounds(res)
       /\ store' = res.store
       /\ lastApi' = Called("clear-uploads", "GET", u, NoPost, authHeaderOk, res)
       /\ UNCHANGED <<feedVars, toggleVars, restVars>>

\* a list endpoint is called for its first page
RequestList ==
  \E e \in Endpoints, u \in Visitors, dbOk \in BOOLEAN :
    LET got == GET(e, rows, u # NoUser, Null, dbOk)
        res == Answer(got.status, store, got.queries)
    IN /\ WithinBounds(res)
       /\ store' = res.store
       /\ lastApi' = Called(e, "GET", u, NoPost, FALSE, res)
       /\ UNCHANGED <<feedVars, toggleVars, restVars>>

\* ------------------------------------- the upload cleanup, step by step
\* no cleanup request in flight; created counts the media records made
NoCleanup == [pc |-> "idle", unusedMedia |-> {}, created |-> 0]

\* the post a submission creates
NewPost == "newPost"

\* uploadthing attachment route, onUploadComplete: prisma.media.create
\* makes a record that is linked to no post
onUploadComplete ==
  /\ cleanup.created < MaxUploads
  /\ store' = [store EXCEPT !.media = @ \cup {[id |-> cleanup.created + 1, postId |-> NoPost, old |-> FALSE]}]
  /\ cleanup' = [cleanup EXCEPT !.created = @ + 1]
  /\ UNCHANGED lastApi
  /\ UNCHANGED exceptCleanup

\* 24 hours pass: every record is older than a day
dayPasses ==
  /\ \E m \in store.media : ~m.old
  /\ store' = [store EXCEPT !.media = {[m EXCEPT !.old = TRUE] : m \in @}]
  /\ UNCHANGED <<lastApi, cleanup>>
  /\ UNCHANGED exceptCleanup

\* submitPost: prisma.post.create with attachments: { connect: mediaIds }
\* links the records to the new post; connecting a record that does not
\* exist makes the create fail
submitPostConnect ==
  \E mediaIds \in SUBSET (1..MaxUploads) :
    /\ mediaIds # {}
    /\ mediaIds \subseteq 1..cleanup.created
    /\ store' = IF mediaIds \subseteq {m.id : m \in store.media}
                THEN [store EXCEPT !.posts = @ \cup {NewPost},
                                   !.media = {IF m.id \in mediaIds THEN [m EXCEPT !.postId = NewPost] ELSE m : m \in @}]
                ELSE store
    /\ UNCHANGED <<lastApi, cleanup>>
    /\ UNCHANGED exceptCleanup

\* GET /api/clear-uploads up to its second await: the header check and
\* prisma.media.findMany({ where: { postId: null, createdAt: ... } })
clearUploadsFindMany ==
  /\ cleanup.pc = "idle"
  /\ \E authHeaderOk \in BOOLEAN, production \in BOOLEAN, failAt \in FailAt(1) :
       LET unusedMedia == {m \in store.media : m.postId = NoPost /\ (production => m.old)}
           res == IF ~authHeaderOk THEN Answer(401, store, 0)
                  ELSE IF failAt = 1 THEN Answer(500, store, 1)
                  ELSE Answer(0, store, 1)
       IN /\ lastApi' = Called("clear-uploads", "GET", NoUser, NoPost, authHeaderOk, res)
          /\ cleanup' = IF res.status = 0
                        THEN [cleanup EXCEPT !.pc = "found", !.unusedMedia = {m.id : m \in unusedMedia}]
                        ELSE cleanup
  /\ UNCHANGED store
  /\ UNCHANGED exceptCleanup

\* GET /api/clear-uploads from its second await on:
\* prisma.media.deleteMany({ where: { id: { in: unusedMedia.map((m) => m.id) } } })
clearUploadsDeleteMany ==
  /\ cleanup.pc = "found"
  /\ \E failAt \in FailAt(1) :
       LET res == IF failAt = 1 THEN Answer(500, store, 2)
                  ELSE Answer(200, applyOp(store, [kind |-> "media.deleteMany", ids |-> cleanup.unusedMedia]), 2)
       IN /\ store' = res.store
          /\ lastApi' = Called("clear-uploads", "GET", NoUser, NoPost, TRUE, res)
  /\ cleanup' = [cleanup EXCEPT !.pc = "idle", !.unusedMedia = {}]
  /\ UNCHANGED exceptCleanup

\* ------------------------------------------------- the notification inbox
\* no notification, no request served, the Notifications page not open;
\* fresh[u]: u's notifications were marked as read and none was created
\* for u since
NoInbox ==
  [notifications |-> {},
   last |-> [route |-> "none", user |-> NoUser, status |-> 0, unreadCount |-> 0],
   fresh |-> [u \in Users |-> FALSE],
   pc |-> "idle",
   unreadCount |-> 0]

\* where: { recipientId: user.id, read: false }
unread(notifications, u) == {n \in notifications : n.recipientId = u /\ ~n.read}

\* a mark-as-read that does not look at the recipient
markAsReadPATCHEveryRecipient(notifications, u, failAt) ==
  IF u = NoUser THEN [status |-> 401, notifications |-> notifications]
  ELSE IF failAt = 1 THEN [status |-> 500, notifications |-> notifications]
  ELSE [status |-> 200, notifications |-> {[n EXCEPT !.read = TRUE] : n \in notifications}]

\* PATCH /api/notifications/mark-as-read: notification.updateMany sets
\* read on the unread notifications of the user
markAsReadPATCH(notifications, u, failAt) ==
  IF u = NoUser THEN [status |-> 401, notifications |-> notifications]
  ELSE IF failAt = 1 THEN [status |-> 500, notifications |-> notifications]
  ELSE [status |-> 200,
        notifications |-> {IF n \in unread(notifications, u) THEN [n EXCEPT !.read = TRUE] ELSE n :
                             n \in notifications}]

\* GET /api/notifications/unread-count: notification.count
unreadCountGET(notifications, u, failAt) ==
  IF u = NoUser THEN [status |-> 401, unreadCount |-> 0]
  ELSE IF failAt = 1 THEN [status |-> 500, unreadCount |-> 0]
  ELSE [status |-> 200, unreadCount |-> Cardinality(unread(notifications, u))]

\* prisma.notification.create in the like, follow and comment handlers:
\* a new notification is unread
notificationCreate ==
  /\ Cardinality(inbox.notifications) < MaxInbox
  /\ \E recipientId \in Users :
       inbox' = [inbox EXCEPT
                   !.notifications = @ \cup {[id |-> Cardinality(@) + 1, recipientId |-> recipientId, read |-> FALSE]},
                   !.last = [route |-> "create", user |-> NoUser, status |-> 0, unreadCount |-> 0],
                   !.fresh[recipientId] = FALSE]
  /\ UNCHANGED exceptInbox

\* a mark-as-read request of any user, or of nobody, is served
RequestMarkAsRead ==
  /\ \E u \in Requesters, failAt \in FailAt(1) :
       LET res == markAsReadPATCH(inbox.notifications, u, failAt)
       IN inbox' = [inbox EXCEPT
                      !.notifications = res.notifications,
                      !.last = [route |-> "mark-as-read", user |-> u, status |-> res.status, unreadCount |-> 0],
                      !.fresh = IF res.status = 200 THEN [@ EXCEPT ![u] = TRUE] ELSE @]
  /\ UNCHANGED exceptInbox

\* an unread-count request is served
RequestUnreadCount ==
  /\ \E u \in Requesters, failAt \in FailAt(1) :
       LET res == unreadCountGET(inbox.notifications, u, failAt)
       IN inbox' = [inbox EXCEPT
                      !.last = [route |-> "unread-count", user |-> u, status |-> res.status,
                                unreadCount |-> res.unreadCount]]
  /\ UNCHANGED exceptInbox

\* the user whose Notifications page is open
PageUser == "owner"

\* Notifications, useEffect(() => { mutate() }, [mutate]): the page is
\* opened with the unread count the layout rendered in the cache
NotificationsMount ==
  /\ inbox.pc = "idle"
  /\ inbox' = [inbox EXCEPT !.pc = "wire",
                            !.unreadCount = Cardinality(unread(inbox.notifications, PageUser))]
  /\ UNCHANGED exceptInbox

\* mutationFn: kyInstance.patch("/api/notifications/mark-as-read") is served
NotificationsMutationFn ==
  /\ inbox.pc = "wire"
  /\ \E failAt \in FailAt(1) :
       LET res == markAsReadPATCH(inbox.notifications, PageUser, failAt)
       IN inbox' = [inbox EXCEPT
                      !.notifications = res.notifications,
                      !.last = [route |-> "mark-as-read", user |-> PageUser, status |-> res.status, unreadCount |-> 0],
                      !.fresh = IF res.status = 200 THEN [@ EXCEPT ![PageUser] = TRUE] ELSE @,
                      !.pc = IF res.status = 200 THEN "answered" ELSE "failed"]
  /\ UNCHANGED exceptInbox

\* onSuccess: setQueryData(["unread-notification-count"], { unreadCount: 0 })
NotificationsOnSuccess ==
  /\ inbox.pc = "answered"
  /\ inbox' = [inbox EXCEPT !.pc = "success", !.unreadCount = 0]
  /\ UNCHANGED exceptInbox

\* onError: console.error, the cache is left as it is
NotificationsOnError ==
  /\ inbox.pc = "failed"
  /\ inbox' = [inbox EXCEPT !.pc = "error"]
  /\ UNCHANGED exceptInbox

\* the page is left
NotificationsUnmount ==
  /\ inbox.pc \in {"success", "error"}
  /\ inbox' = [inbox EXCEPT !.pc = "idle"]
  /\ UNCHANGED exceptInbox

\* ------------------------------------------- deleting posts and comments
\* no post, no comment, no delete request served
NoEntities ==
  [posts |-> {}, comments |-> {},
   last |-> [op |-> "none", user |-> NoUser, id |-> 0, result |-> "none"]]

\* the tables of posts (comments) there can be: rows with an id and the
\* id of the author
Tables == {t \in SUBSET [id : 1..MaxEntities, userId : Users] :
             \A a, b \in t : a.id = b.id => a = b}

\* findUnique({ where: { id } }): the row, or no row
findUnique(table, id) == {e \in table : e.id = id}

\* a deletePost that does not compare the author with the user
deletePostOfAnybody(posts, u, id, failAt) ==
  IF u = NoUser THEN [result |-> "Unauthorized access", table |-> posts]
  ELSE IF failAt = 1 THEN [result |-> "store error", table |-> posts]
  ELSE LET post == findUnique(posts, id)
       IN IF post = {} THEN [result |-> "Post not found", table |-> posts]
          ELSE IF failAt = 2 THEN [result |-> "store error", table |-> posts]
          ELSE [result |-> "deleted", table |-> posts \ post]

\* the server action deletePost(id)
deletePostAction(posts, u, id, failAt) ==
  IF u = NoUser THEN [result |-> "Unauthorized access", table |-> posts]
  ELSE IF failAt = 1 THEN [result |-> "store error", table |-> posts]
  ELSE LET post == findUnique(posts, id)
       IN IF post = {} THEN [result |-> "Post not found", table |-> posts]
          ELSE IF \E e \in post : e.userId # u THEN [result |-> "Unauthorized", table |-> posts]
          ELSE IF failAt = 2 THEN [result |-> "store error", table |-> posts]
          ELSE [result |-> "deleted", table |-> posts \ post]

\* the server action deleteComment(id)
deleteComment(comments, u, id, failAt) ==
  IF u = NoUser THEN [result |-> "Unauthorized", table |-> comments]
  ELSE IF failAt = 1 THEN [result |-> "store error", table |-> comments]
  ELSE LET comment == findUnique(comments, id)
       IN IF comment = {} THEN [result |-> "Comment not found", table |-> comments]
          ELSE IF \E e \in comment : e.userId # u THEN [result |-> "Unauthorized", table |-> comments]
          ELSE IF failAt = 2 THEN [result |-> "store error", table |-> comments]
          ELSE [result |-> "deleted", table |-> comments \ comment]

\* deletePost is called by a user, or by nobody, for a post that exists or
\* does not
RequestDeletePost ==
  /\ \E u \in Requesters, id \in 1..(MaxEntities + 1), failAt \in FailAt(2) :
       LET res == deletePostAction(entities.posts, u, id, failAt)
       IN entities' = [entities EXCEPT
                         !.posts = res.table,
                         !.last = [op |-> "deletePost", user |-> u, id |-> id, result |-> res.result]]
  /\ UNCHANGED exceptEntities

\* deleteComment is called the same way
RequestDeleteComment ==
  /\ \E u \in Requesters, id \in 1..(MaxEntities + 1), failAt \in FailAt(2) :
       LET res == deleteComment(entities.comments, u, id, failAt)
       IN entities' = [entities EXCEPT
                         !.comments = res.table,
                         !.last = [op |-> "deleteComment", user |-> u, id |-> id, result |-> res.result]]
  /\ UNCHANGED exceptEntities

\* -------------------------------------------------------- useMediaUpload
\* useState<Attachment[]>([]), isUploading false, no call made yet;
\* inFlight holds the batches startUpload has sent and that have not
\* settled, chosen counts the files picked so far
NoUpload ==
  [attachments |-> <<>>, isUploading |-> FALSE, inFlight |-> {}, chosen |-> 0,
   last |-> [call |-> "none", files |-> 0, outcome |-> "none", toast |-> "none"]]

\* the files picked in one call: crypto.randomUUID() gives each its own name
Picked(n) == [i \in 1..n |-> upload.chosen + i]

\* onBeforeUploadBegin(files): the renamed files are appended as uploading
onBeforeUploadBegin(attachments, files) ==
  attachments \o [i \in 1..Len(files) |-> [file |-> files[i], isUploading |-> TRUE, mediaId |-> FALSE]]

\* a handleStartUpload without the isUploading check
handleStartUploadWhileUploading(n) ==
  /\ upload.chosen + n <= MaxFilesChosen
  /\ IF Len(upload.attachments) + n > MaxAttachments
     THEN upload' = [upload EXCEPT !.last = [call |-> "startUpload", files |-> n, outcome |-> "limit",
                                            toast |-> "You can only upload up to 5 attachments per post."]]
     ELSE upload' = [upload EXCEPT !.attachments = onBeforeUploadBegin(@, Picked(n)),
                                   !.isUploading = TRUE,
                                   !.inFlight = @ \cup {Range(Picked(n))},
                                   !.chosen = @ + n,
                                   !.last = [call |-> "startUpload", files |-> n, outcome |-> "started", toast |-> "none"]]
  /\ UNCHANGED exceptUpload

\* handleStartUpload(files): the two checks, each with its destructive
\* toast, then startUpload(files) of useUploadThing, which calls
\* onBeforeUploadBegin and sets isUploading
handleStartUpload(n) ==
  /\ upload.chosen + n <= MaxFilesChosen
  /\ IF upload.isUploading
     THEN upload' = [upload EXCEPT !.last = [call |-> "startUpload", files |-> n, outcome |-> "busy",
                                            toast |-> "Please wait for the current upload to finish."]]
     ELSE IF Len(upload.attachments) + n > MaxAttachments
     THEN upload' = [upload EXCEPT !.last = [call |-> "startUpload", files |-> n, outcome |-> "limit",
                                            toast |-> "You can only upload up to 5 attachments per post."]]
     ELSE upload' = [upload EXCEPT !.attachments = onBeforeUploadBegin(@, Picked(n)),
                                   !.isUploading = TRUE,
                                   !.inFlight = @ \cup {Range(Picked(n))},
                                   !.chosen = @ + n,
                                   !.last = [call |-> "startUpload", files |-> n, outcome |-> "started", toast |-> "none"]]
  /\ UNCHANGED exceptUpload

\* onClientUploadComplete(res): the attachments whose file name has a
\* result get their mediaId and stop uploading; useUploadThing then
\* clears isUploading
onClientUploadComplete ==
  /\ \E res \in upload.inFlight :
       upload' = [upload EXCEPT
                    !.attachments = [i \in 1..Len(@) |->
                                       IF @[i].file \in res
                                       THEN [@[i] EXCEPT !.mediaId = TRUE, !.isUploading = FALSE]
                                       ELSE @[i]],
                    !.isUploading = FALSE,
                    !.inFlight = @ \ {res},
                    !.last = [call |-> "onClientUploadComplete", files |-> 0, outcome |-> "none", toast |-> "none"]]
  /\ UNCHANGED exceptUpload

\* onUploadError(e): the attachments still uploading are dropped and the
\* error is shown; useUploadThing then clears isUploading
onUploadError ==
  /\ \E res \in upload.inFlight :
       upload' = [upload EXCEPT
                    !.attachments = SelectSeq(@, LAMBDA a : ~a.isUploading),
                    !.isUploading = FALSE,
                    !.inFlight = @ \ {res},
                    !.last = [call |-> "onUploadError", files |-> 0, outcome |-> "none", toast |-> "e.message"]]
  /\ UNCHANGED exceptUpload

\* removeAttachment(fileName)
removeAttachment ==
  /\ \E i \in 1..Len(upload.attachments) :
       upload' = [upload EXCEPT
                    !.attachments = SelectSeq(@, LAMBDA a : a.file # upload.attachments[i].file),
                    !.last = [call |-> "removeAttachment", files |-> 0, outcome |-> "none", toast |-> "none"]]
  /\ UNCHANGED exceptUpload

\* reset(): setAttachments([])
reset ==
  /\ upload.attachments # <<>>
  /\ upload' = [upload EXCEPT !.attachments = <<>>,
                              !.last = [call |-> "reset", files |-> 0, outcome |-> "none", toast |-> "none"]]
  /\ UNCHANGED exceptUpload

\* ------------------------------------------------ useInitializeChatClient
\* useState<StreamChat | null>(null), the component not mounted, no
\* effect run yet
NoChat == [chatClient |-> "null", mounted |-> FALSE, runs |-> <<>>]

\* a run of the effect: client.connectUser(...) is pending
NewRun == [connectUser |-> "pending", then |-> FALSE]

\* the component mounts: the effect runs and calls client.connectUser
ChatMount ==
  /\ ~chat.mounted
  /\ Len(chat.runs) < MaxEffects
  /\ chat' = [chat EXCEPT !.mounted = TRUE, !.runs = Append(@, NewRun)]
  /\ UNCHANGED exceptChat

\* user.id, username, displayName or avatarUrl changes: the cleanup of the
\* last run calls setChatClient(null) and client.disconnectUser(), and
\* the effect runs again
ChatUserChanges ==
  /\ chat.mounted
  /\ Len(chat.runs) < MaxEffects
  /\ chat' = [chat EXCEPT !.chatClient = "null", !.runs = Append(@, NewRun)]
  /\ UNCHANGED exceptChat

\* the component unmounts: the cleanup of the last run
ChatUnmount ==
  /\ chat.mounted
  /\ chat' = [chat EXCEPT !.chatClient = "null", !.mounted = FALSE]
  /\ UNCHANGED exceptChat

\* connectUser of run i resolves: the user is connected
connectUserResolves(i) ==
  /\ i \in 1..Len(chat.runs)
  /\ chat.runs[i].connectUser = "pending"
  /\ chat' = [chat EXCEPT !.runs[i].connectUser = "connected"]
  /\ UNCHANGED exceptChat

\* connectUser of run i rejects (the token request or the connection
\* fails): .catch((error) => console.error(...)) handles the rejection
connectUserRejects(i) ==
  /\ i \in 1..Len(chat.runs)
  /\ chat.runs[i].connectUser = "pending"
  /\ chat' = [chat EXCEPT !.runs[i].connectUser = "failed"]
  /\ UNCHANGED exceptChat

\* .then(() => setChatClient(client)), chained after the .catch: it runs
\* when connectUser has settled either way; a state update of a component
\* that is no longer mounted is dropped
thenSetChatClient(i) ==
  /\ i \in 1..Len(chat.runs)
  /\ chat.runs[i].connectUser # "pending"
  /\ ~chat.runs[i].then
  /\ chat' = [chat EXCEPT !.runs[i].then = TRUE,
                          !.chatClient = IF chat.mounted THEN "client" ELSE @]
  /\ UNCHANGED exceptChat

Init ==
  /\ endpoint \in Endpoints
  /\ \E n \in 0..MaxRows, k \in 0..2 : rows = Table(n, k)
  /\ user \in BOOLEAN
  /\ pages = <<>>
  /\ status = "pending"
  /\ isFetching = FALSE
  /\ net = <<>>
  /\ lastCall = NoCall
  /\ server = [k \in Keys |-> FALSE]
  /\ cache = [k \in Keys |-> initialState(k, FALSE, 0)]
  /\ muts = <<>>
  /\ writes = <<>>
  /\ store = EmptyStore
  /\ lastApi = NoApiCall
  /\ cleanup = NoCleanup
  /\ chat = NoChat
  /\ upload = NoUpload
  /\ entities = NoEntities
  /\ inbox = NoInbox

Next == Mount \/ onBottomReached \/ LoadPreviousComments \/ queryFn \/ Request

Spec == Init /\ [][Next]_vars

\* the toggle buttons of one page, rendered from what the server holds
InitToggle ==
  /\ endpoint = "for-you"
  /\ rows = <<>>
  /\ user = TRUE
  /\ pages = <<>>
  /\ status = "pending"
  /\ isFetching = FALSE
  /\ net = <<>>
  /\ lastCall = NoCall
  /\ \E flag \in BOOLEAN, others \in 0..MaxOthers :
       /\ server = [k \in Keys |-> flag]
       /\ cache = [k \in Keys |-> initialState(k, flag, others)]
  /\ muts = <<>>
  /\ writes = <<>>
  /\ store = EmptyStore
  /\ lastApi = NoApiCall
  /\ cleanup = NoCleanup
  /\ chat = NoChat
  /\ upload = NoUpload
  /\ entities = NoEntities
  /\ inbox = NoInbox

NextToggle ==
  \/ \E k \in Keys : mutate(k)
  \/ \E i \in 1..MaxClicks : onMutate(i)
  \/ \E i \in 1..MaxClicks : mutationFn(i)
  \/ \E i \in 1..MaxClicks : requestSucceeds(i)
  \/ \E i \in 1..MaxClicks : onError(i)

SpecToggle == InitToggle /\ [][NextToggle]_vars

\* a feed open in the session of a logged-in user while rows come and go
InitWrites ==
  /\ endpoint \in Endpoints
  /\ \E n \in 0..MaxRows : rows = Table(n, 0)
  /\ user = TRUE
  /\ pages = <<>>
  /\ status = "pending"
  /\ isFetching = FALSE
  /\ net = <<>>
  /\ lastCall = NoCall
  /\ server = [k \in Keys |-> FALSE]
  /\ cache = [k \in Keys |-> initialState(k, FALSE, 0)]
  /\ muts = <<>>
  /\ writes = <<>>
  /\ store = EmptyStore
  /\ lastApi = NoApiCall
  /\ cleanup = NoCleanup
  /\ chat = NoChat
  /\ upload = NoUpload
  /\ entities = NoEntities
  /\ inbox = NoInbox

NextWrites ==
  \/ Mount
  \/ onBottomReached
  \/ LoadPreviousComments
  \/ queryFn
  \/ createRow
  \/ submitPost
  \/ \E i \in 1..MaxWrites : useSubmitPostMutationOnSuccess(i)
  \/ deletePost
  \/ \E i \in 1..MaxWrites : useDeletePostMutationOnSuccess(i)
  \/ submitComment
  \/ \E i \in 1..MaxWrites : useSubmitCommentMutationOnSuccess(i)

SpecWrites == InitWrites /\ [][NextWrites]_vars

\* the store with one post, no like, follow or bookmark yet, and any media
InitApi ==
  /\ endpoint = "for-you"
  /\ rows = Table(pageSizeForYou + 1, 0)
  /\ user = TRUE
  /\ pages = <<>>
  /\ status = "pending"
  /\ isFetching = FALSE
  /\ net = <<>>
  /\ lastCall = NoCall
  /\ server = [k \in Keys |-> FALSE]
  /\ cache = [k \in Keys |-> initialState(k, FALSE, 0)]
  /\ muts = <<>>
  /\ writes = <<>>
  /\ \E media \in SUBSET MediaRecords :
       /\ \A m1, m2 \in media : m1.id = m2.id => m1 = m2
       /\ store = [EmptyStore EXCEPT !.media = media]
  /\ lastApi = NoApiCall
  /\ cleanup = NoCleanup
  /\ chat = NoChat
  /\ upload = NoUpload
  /\ entities = NoEntities
  /\ inbox = NoInbox

NextApi ==
  \/ RequestLikesGET
  \/ RequestLikesPOST
  \/ RequestLikesDELETE
  \/ RequestBookmarkGET
  \/ RequestBookmarkPOST
  \/ RequestBookmarkDELETE
  \/ RequestFollowersGET
  \/ RequestFollowersPOST
  \/ RequestFollowersDELETE
  \/ RequestClearUploads
  \/ RequestList

SpecApi == InitApi /\ [][NextApi]_vars

InitCleanup ==
  /\ endpoint = "for-you"
  /\ rows = <<>>
  /\ user = TRUE
  /\ pages = <<>>
  /\ status = "pending"
  /\ isFetching = FALSE
  /\ net = <<>>
  /\ lastCall = NoCall
  /\ server = [k \in Keys |-> FALSE]
  /\ cache = [k \in Keys |-> initialState(k, FALSE, 0)]
  /\ muts = <<>>
  /\ writes = <<>>
  /\ store = EmptyStore
  /\ lastApi = NoApiCall
  /\ cleanup = NoCleanup
  /\ chat = NoChat
  /\ upload = NoUpload
  /\ entities = NoEntities
  /\ inbox = NoInbox

NextCleanup ==
  \/ onUploadComplete
  \/ dayPasses
  \/ submitPostConnect
  \/ clearUploadsFindMany
  \/ clearUploadsDeleteMany

SpecCleanup == InitCleanup /\ [][NextCleanup]_vars

InitInbox ==
  /\ endpoint = "for-you"
  /\ rows = <<>>
  /\ user = TRUE
  /\ pages = <<>>
  /\ status = "pending"
  /\ isFetching = FALSE
  /\ net = <<>>
  /\ lastCall = NoCall
  /\ server = [k \in Keys |-> FALSE]
  /\ cache = [k \in Keys |-> initialState(k, FALSE, 0)]
  /\ muts = <<>>
  /\ writes = <<>>
  /\ store = EmptyStore
  /\ lastApi = NoApiCall
  /\ cleanup = NoCleanup
  /\ chat = NoChat
  /\ upload = NoUpload
  /\ entities = NoEntities
  /\ inbox = NoInbox

NextInbox ==
  \/ notificationCreate
  \/ RequestMarkAsRead
  \/ RequestUnreadCount
  \/ NotificationsMount
  \/ NotificationsMutationFn
  \/ NotificationsOnSuccess
  \/ NotificationsOnError
  \/ NotificationsUnmount

SpecInbox == InitInbox /\ [][NextInbox]_vars

InitEntities ==
  /\ endpoint = "for-you"
  /\ rows = <<>>
  /\ user = TRUE
  /\ pages = <<>>
  /\ status = "pending"
  /\ isFetching = FALSE
  /\ net = <<>>
  /\ lastCall = NoCall
  /\ server = [k \in Keys |-> FALSE]
  /\ cache = [k \in Keys |-> initialState(k, FALSE, 0)]
  /\ muts = <<>>
  /\ writes = <<>>
  /\ store = EmptyStore
  /\ lastApi = NoApiCall
  /\ cleanup = NoCleanup
  /\ chat = NoChat
  /\ upload = NoUpload
  /\ inbox = NoInbox
  /\ \E posts \in Tables, comments \in Tables :
       entities = [NoEntities EXCEPT !.posts = posts, !.comments = comments]

NextEntities ==
  \/ RequestDeletePost
  \/ RequestDeleteComment

SpecEntities == InitEntities /\ [][NextEntities]_vars

InitUpload ==
  /\ endpoint = "for-you"
  /\ rows = <<>>
  /\ user = TRUE
  /\ pages = <<>>
  /\ status = "pending"
  /\ isFetching = FALSE
  /\ net = <<>>
  /\ lastCall = NoCall
  /\ server = [k \in Keys |-> FALSE]
  /\ cache = [k \in Keys |-> initialState(k, FALSE, 0)]
  /\ muts = <<>>
  /\ writes = <<>>
  /\ store = EmptyStore
  /\ lastApi = NoApiCall
  /\ cleanup = NoCleanup
  /\ chat = NoChat
  /\ entities = NoEntities
  /\ inbox = NoInbox
  /\ upload = NoUpload

NextUpload ==
  \/ \E n \in 1..MaxFilesPerCall : handleStartUpload(n)
  \/ onClientUploadComplete
  \/ onUploadError
  \/ removeAttachment
  \/ reset

SpecUpload == InitUpload /\ [][NextUpload]_vars

InitChat ==
  /\ endpoint = "for-you"
  /\ rows = <<>>
  /\ user = TRUE
  /\ pages = <<>>
  /\ status = "pending"
  /\ isFetching = FALSE
  /\ net = <<>>
  /\ lastCall = NoCall
  /\ server = [k \in Keys |-> FALSE]
  /\ cache = [k \in Keys |-> initialState(k, FALSE, 0)]
  /\ muts = <<>>
  /\ writes = <<>>
  /\ store = EmptyStore
  /\ lastApi = NoApiCall
  /\ cleanup = NoCleanup
  /\ upload = NoUpload
  /\ entities = NoEntities
  /\ inbox = NoInbox
  /\ chat = NoChat

NextChat ==
  \/ ChatMount
  \/ ChatUserChanges
  \/ ChatUnmount
  \/ \E i \in 1..MaxEffects : connectUserResolves(i)
  \/ \E i \in 1..MaxEffects : connectUserRejects(i)
  \/ \E i \in 1..MaxEffects : thenSetChatClient(i)

SpecChat == InitChat /\ [][NextChat]_vars


\* ------------------------------------------------------- feed assembly
\* const posts = data?.pages.flatMap((page) => page.posts) ?? []
feedPosts == Flatten([i \in 1..Len(pages) |-> pages[i].items])

\* select: pages: [...data.pages].reverse(), then
\* const comments = data?.pages.flatMap((page) => page.comments) || []
feedComments == Flatten(Reverse([i \in 1..Len(pages) |-> pages[i].items]))

\* ---------------------------------------------------- what the claims use
\* the rows of the endpoint in its total order: newest first, and oldest
\* first for the comment feed
Dataset == IF endpoint = "comments" THEN rows ELSE Reverse(rows)

\* the page size the specification gives for the endpoint
SpecPageSize == IF endpoint = "comments" THEN 5 ELSE 10

\* the cursor chain has been followed to its end
ChainDone == status = "success" /\ pages # <<>> /\ ~hasNextPage /\ net = <<>>

Served == lastCall.res.status = 200

\* rows from the starting position of the last request on: all rows when
\* no cursor was sent, otherwise the cursor row and everything the order
\* places on the far side of it (none when the cursor names no row)
Remaining == IF lastCall.cursor = Null THEN Len(rows) ELSE IndexOf(rows, lastCall.cursor)

NoDuplicates(s) == \A i, j \in 1..Len(s) : s[i] = s[j] => i = j

\* C1: following the nextCursor chain from the first request until the
\* cursor is null and concatenating the pages in fetch order gives all
\* matching rows in the endpoint's order, each exactly once.
C1_ChainReproducesDataset ==
  (endpoint # "comments" /\ ChainDone) => feedPosts = Dataset

C1_Witness ==
  /\ endpoint = "for-you" /\ ChainDone
  /\ Len(pages) = 3 /\ Len(feedPosts) = MaxRows

\* C2: a page never holds more items than the page size of its endpoint
\* (10, and 5 for comments), for every dataset and every cursor.
C2_PageAtMostPageSize ==
  /\ Len(lastCall.res.items) <= SpecPageSize
  /\ \A i \in 1..Len(pages) : Len(pages[i].items) <= SpecPageSize

C2_Witness ==
  /\ Served /\ lastCall.cursor # Null
  /\ Len(lastCall.res.retrieved) = SpecPageSize + 1
  /\ Len(lastCall.res.items) = SpecPageSize

\* C3: the cursor of a served page is null exactly when at most pageSize
\* rows remain from the starting position of the request.
C3_NullCursorIffNoMore ==
  Served => (lastCall.res.cursor = Null <=> Remaining <= SpecPageSize)

C3_Witness ==
  /\ Served /\ lastCall.cursor # Null
  /\ Remaining = SpecPageSize /\ lastCall.res.cursor = Null

\* the oldest item of the page served last
OldestItem == LET items == lastCall.res.items
              IN IF endpoint = "comments" THEN items[1] ELSE items[Len(items)]

\* C4: a non-null cursor in a response is the id of the first row beyond
\* the returned page (the row created just before the page's oldest item)
\* and is not one of the returned items.
C4_CursorIsProbeRow ==
  (Served /\ lastCall.res.cursor # Null) =>
     /\ lastCall.res.items # <<>>
     /\ IndexOf(rows, OldestItem) > 1
     /\ lastCall.res.cursor = rows[IndexOf(rows, OldestItem) - 1]
     /\ lastCall.res.cursor \notin Range(lastCall.res.items)

C4_Witness ==
  /\ Served /\ lastCall.cursor # Null /\ lastCall.res.cursor # Null
  /\ endpoint = "following"

\* C5 as stated: with a cursor, the cursor row is not among the rows
\* retrieved (exclusive bound).
C5_CursorExclusive ==
  (Served /\ lastCall.cursor # Null) => lastCall.cursor \notin Range(lastCall.res.retrieved)

\* C5 amended: with a cursor that names a matching row, the rows retrieved
\* start AT the cursor row (end at it for comments): it is the first
\* retrieved row in the endpoint's order (the last for comments), and no
\* row on the near side of it is retrieved.
C5_CursorInclusive ==
  (Served /\ lastCall.cursor # Null /\ lastCall.cursor \in Range(rows)) =>
     LET got == lastCall.res.retrieved
     IN /\ got # <<>>
        /\ IF endpoint = "comments" THEN got[Len(got)] = lastCall.cursor ELSE got[1] = lastCall.cursor
        /\ \A i \in 1..Len(got) : IndexOf(rows, got[i]) <= IndexOf(rows, lastCall.cursor)
        /\ Len(got) = Min(SpecPageSize + 1, IndexOf(rows, lastCall.cursor))

C5_Witness ==
  /\ Served /\ lastCall.cursor # Null /\ lastCall.cursor \in Range(rows)
  /\ Len(lastCall.res.retrieved) = SpecPageSize + 1
  /\ endpoint \in {"bookmarked", "comments"}

\* C6: the comments endpoint takes the oldest retrieved row as the probe
\* when more than 5 rows were retrieved (previousCursor is its id and it is
\* left out of the page) and otherwise returns all rows with a null
\* previousCursor; following previousCursor until null shows every comment
\* of the post exactly once.
C6_CommentsProbeAndChain ==
  endpoint = "comments" =>
    /\ Served =>
         LET got == lastCall.res.retrieved
         IN IF Len(got) > 5
            THEN /\ lastCall.res.cursor = got[1]
                 /\ lastCall.res.items = Tail(got)
                 /\ got[1] \notin Range(lastCall.res.items)
                 /\ \A i \in 1..Len(got) : IndexOf(rows, got[1]) <= IndexOf(rows, got[i])
            ELSE lastCall.res.cursor = Null /\ lastCall.res.items = got
    /\ ChainDone => /\ NoDuplicates(feedComments)
                    /\ Range(feedComments) = Range(rows)

C6_Witness ==
  /\ endpoint = "comments" /\ ChainDone
  /\ Len(pages) >= 3 /\ Len(feedComments) >= 12
  /\ Served /\ lastCall.cursor # Null

\* C10: while a page fetch of the feed query is outstanding no second one
\* is started, however often the sentinel comes into view or the button is
\* pressed.
C10_OneFetchAtATime == Len(net) <= 1

C10_Witness ==
  /\ Len(net) = 1 /\ isFetching
  /\ pages # <<>> /\ hasNextPage

\* ------------------------------------------------------ toggle claims
SameKey(i, j) == i # j /\ muts[i].key = muts[j].key

\* C7: when the network call of a toggle fails, the cache entry of its key
\* after the rollback is what it was immediately before this mutation's
\* optimistic write, whatever other clicks and settlements came between.
C7_RollbackRestoresPrior ==
  [][\A i \in 1..Len(muts) :
       (muts[i].pc = "wire" /\ muts'[i].pc = "error")
          => cache'[muts[i].key] = muts[i].before]_vars

C7_Witness ==
  \E i, j \in 1..Len(muts) :
    /\ SameKey(i, j)
    /\ muts[i].pc = "error" /\ muts[j].pc \in {"wire", "success", "error"}
    /\ cache[muts[i].key] = muts[i].before

\* C8: no second mutation of a cache key is started while an earlier one
\* of that key is still pending.
C8_NoSecondMutationWhilePending ==
  \A i, j \in 1..Len(muts) : SameKey(i, j) => ~(Pending(muts[i]) /\ Pending(muts[j]))

Protocol == <<"cancelQueries", "getQueryData", "setQueryData", "mutationFn">>

IsPrefix(s, t) == Len(s) <= Len(t) /\ s = SubSeq(t, 1, Len(s))

\* C9: every toggle mutation first cancels the refetch of its key, then
\* captures the prior value and writes the speculative one, and only then
\* sends the request; success writes nothing more, failure writes the
\* captured value back.
C9_ProtocolOrder ==
  /\ [](\A i \in 1..Len(muts) :
          /\ IsPrefix(muts[i].log, Protocol \o <<"onError:setQueryData">>)
          /\ muts[i].pc = "cancelled" => muts[i].log = <<"cancelQueries">> /\ muts[i].previousState = NoState
          /\ muts[i].pc \in {"wire", "success"} => muts[i].log = Protocol
          /\ muts[i].pc = "error" => muts[i].log = Protocol \o <<"onError:setQueryData">>)
  /\ [][/\ Len(muts') > Len(muts) => cache' = cache
        /\ \A i \in 1..Len(muts) :
             /\ (muts[i].pc = "wire" /\ muts'[i].pc = "success") => cache' = cache
             /\ (muts[i].pc = "wire" /\ muts'[i].pc = "error")
                   => cache' = [cache EXCEPT ![muts[i].key] = muts[i].previousState]
             /\ (muts[i].pc = "cancelled" /\ muts'[i].pc = "written")
                   => /\ muts'[i].previousState = cache[muts[i].key]
                      /\ cache'[muts[i].key] # cache[muts[i].key]
             /\ (muts[i].pc = "written" /\ muts'[i].pc = "wire") => cache' = cache]_vars

C9_Witness ==
  \E i, j \in 1..Len(muts) :
    /\ muts[i].pc = "success" /\ muts[i].log = Protocol
    /\ muts[j].pc = "error" /\ cache[muts[j].key] = muts[j].previousState

\* the mutations of key k, in click order
MutsOf(k) == SelectSeq(muts, LAMBDA m : m.key = k)

\* like, unlike, like on like key k: three clicks, each made after the one
\* before it had settled, all of them successful
LikeUnlikeLike(k) ==
  /\ k[1] = "like-info"
  /\ Len(MutsOf(k)) = 3
  /\ [i \in 1..3 |-> MutsOf(k)[i].method] = <<"POST", "DELETE", "POST">>
  /\ \A i \in 1..3 : MutsOf(k)[i].pc = "success" /\ MutsOf(k)[i].alone

\* C11 as stated: after like, unlike, like (each settled with success
\* before the next) the displayed like count is the original count.
C11_LikeUnlikeLikeIsOriginal ==
  \A k \in Keys : LikeUnlikeLike(k) => cache[k].likes = MutsOf(k)[1].before.likes

\* C11 amended: like then unlike gives back the original count and flag;
\* a third toggle (like) then shows the original count plus one, the count
\* that was displayed after the first like. In general, after toggles that
\* each settled with success before the next, starting with a like, the
\* displayed count is the original count after an even number of toggles
\* and the original count plus one after an odd number.
C11_LikeUnlikeRestores ==
  \A k \in Keys :
    LET ms == MutsOf(k)
        sequential == \A i \in 1..Len(ms) : ms[i].alone /\ (i < Len(ms) => ms[i].pc = "success")
        started(i) == i <= Len(ms) /\ ms[i].pc \in {"written", "wire", "success"}
        toggles == Cardinality({i \in 1..Len(ms) : started(i)})
        original == ms[1].before
    IN (k[1] = "like-info" /\ sequential /\ started(1) /\ ms[1].method = "POST") =>
         /\ cache[k].likes = original.likes + (toggles % 2)
         /\ toggles % 2 = 0 => cache[k] = original
         /\ \A i \in 1..Len(ms) :
              started(i) => /\ ms[i].method = (IF i % 2 = 1 THEN "POST" ELSE "DELETE")
                            /\ ms[i].before.likes = original.likes + ((i - 1) % 2)

C11_Witness ==
  \E k \in Keys : LikeUnlikeLike(k) /\ cache[k].likes = MutsOf(k)[1].before.likes + 1

Count(s, x) == Cardinality({i \in 1..Len(s) : s[i] = x})

\* toasts a mutation shows that are not the destructive one: the
\* "Post bookmarked" toast of BookmarkButton
InfoToasts(m) == IF m.key[1] = "bookmark-info" THEN 1 ELSE 0

Moved(i) == i > Len(muts) \/ muts'[i] # muts[i]

C14_FailureIs500NoRetry ==
  /\ lastCall.res.queries <= 1
  /\ lastCall.res.status = 200 => lastCall.res.queries = 1
  /\ lastCall.res.status = 500 =>
       /\ lastCall.res.items = <<>> /\ lastCall.res.retrieved = <<>>
       /\ lastCall.res.cursor = Null
       /\ lastCall.res.queries = 1
  /\ (user /\ lastCall # NoCall) => lastCall.res.status \in {200, 500}

C14_Witness ==
  /\ lastCall.res.status = 500 /\ lastCall.res.queries = 1
  /\ Len(rows) > SpecPageSize /\ user
  /\ status = "error" /\ Len(pages) = 1

\* what the feed shows: the concatenation of the cached pages
assembled == IF endpoint = "comments" THEN feedComments ELSE feedPosts

Inserted(w) == w.op \in {"create", "submitPost"} /\ w.pc # "error"

\* C12: when rows are inserted between two page fetches of a feed, the
\* concatenation of the fetched pages never holds an item twice.
C12_NoDuplicatesUnderInserts ==
  (\A i \in 1..Len(writes) : Inserted(writes[i])) => NoDuplicates(assembled)

C12_Witness ==
  /\ endpoint = "for-you" /\ Len(pages) = 3 /\ ~hasNextPage
  /\ Len(writes) = 2
  /\ Inserted(writes[1]) /\ writes[1].at = 1 /\ writes[1].id \in Range(rows)
  /\ Inserted(writes[2]) /\ writes[2].at = 2 /\ writes[2].id \in Range(rows)
  /\ NoDuplicates(feedPosts)

\* C17: when the submission of a post has succeeded, the new post is the
\* first item of the first cached page of the for-you feed, and the
\* page's nextCursor and all later pages are as before.
C17_SubmittedPostHeadsForYou ==
  [][\A i \in 1..Len(writes) :
       (/\ writes[i].op = "submitPost" /\ writes[i].pc = "created" /\ writes'[i].pc = "done"
        /\ endpoint = "for-you" /\ pages # <<>>)
          => /\ pages' # <<>>
             /\ pages'[1].items # <<>> /\ pages'[1].items[1] = writes[i].id
             /\ pages'[1].cursor = pages[1].cursor
             /\ Tail(pages') = Tail(pages)]_vars

\* C18: when the deletion of a post has succeeded, no cached page of the
\* feed holds the deleted post, and cursors and all other posts are as
\* before.
C18_DeletedPostLeavesEveryFeed ==
  [][\A i \in 1..Len(writes) :
       (writes[i].op = "deletePost" /\ writes[i].pc = "deleted" /\ writes'[i].pc = "done")
          => /\ Len(pages') = Len(pages)
             /\ \A p \in 1..Len(pages) :
                  /\ writes[i].id \notin Range(pages'[p].items)
                  /\ pages'[p].cursor = pages[p].cursor
                  /\ pages'[p].items = SelectSeq(pages[p].items, LAMBDA x : x # writes[i].id)]_vars

\* C19: the displayed comment list is ordered from oldest to newest after
\* any sequence of load-previous-comments and submit-comment actions.
C19_CommentsOldestToNewest ==
  endpoint = "comments" =>
    \A i, j \in 1..Len(feedComments) :
      i < j => IndexOf(rows, feedComments[i]) <= IndexOf(rows, feedComments[j])

\* the handlers that ask validateRequest() for the user
SessionRoutes == {"likes", "bookmark", "followers"} \cup Endpoints

likeRow(u) == store.likes[<<u, ThePost>>] >= 1

\* C20: a like request writes the like row and, when the liker is not the
\* owner of the post, a LIKE notification, both or neither; an unlike
\* request deletes both or neither. In no store state is there a like row
\* of a user other than the owner without a LIKE notification of that
\* user, or a LIKE notification without the like row; a like of the
\* owner's own post never comes with a notification.
C20_LikeAndNotificationTogether ==
  /\ \A u \in Users \ {"owner"} : likeRow(u) <=> store.notifications[<<"LIKE", u>>] >= 1
  /\ store.notifications[<<"LIKE", "owner">>] = 0
  /\ (lastApi.route = "likes" /\ lastApi.status # 200) => ~lastApi.changed
  /\ (lastApi.route = "likes" /\ lastApi.status = 200 /\ lastApi.method = "POST") => likeRow(lastApi.user)
  /\ (lastApi.route = "likes" /\ lastApi.status = 200 /\ lastApi.method = "DELETE") =>
        ~likeRow(lastApi.user) /\ store.notifications[<<"LIKE", lastApi.user>>] = 0

C20_Witness ==
  /\ lastApi.route = "likes" /\ lastApi.method = "DELETE" /\ lastApi.status = 500
  /\ lastApi.queries = 3 /\ lastApi.user = "other"
  /\ likeRow("other") /\ store.notifications[<<"LIKE", "other">>] >= 1
  /\ likeRow("owner")

\* the cached like / follower info of key k is well formed
WellFormedInfo(k) ==
  CASE k[1] = "like-info"     -> cache[k].likes >= 0 /\ (cache[k].isLikedByUser => cache[k].likes >= 1)
    [] k[1] = "follower-info" -> cache[k].followers >= 0 /\ (cache[k].isFollowedByUser => cache[k].followers >= 1)
    [] k[1] = "bookmark-info" -> TRUE

\* C28: in every reachable cache state the like count and the follower
\* count are never negative and a set flag comes with a count of at least
\* 1, across optimistic writes and rollbacks in any interleaving, from an
\* initial state that satisfies this.
C28_CountsMatchFlags ==
  \A k \in Keys : WellFormedInfo(k)

\* a rollback of one like (follow) mutation while a later mutation of the
\* same key has its optimistic write in the cache
C28_Witness ==
  \E i, j \in 1..Len(muts) :
    /\ i < j /\ SameKey(i, j)
    /\ muts[i].key[1] = "follower-info"
    /\ muts[i].pc = "error" /\ muts[j].pc \in {"written", "wire"}
    /\ cache[muts[i].key] = muts[i].previousState
    /\ cache[muts[i].key].followers = 0
    /\ \E l \in 1..Len(muts) : muts[l].key[1] = "like-info" /\ muts[l].pc = "error"

\* every mutation that was started has settled with success
AllSucceeded ==
  /\ muts # <<>>
  /\ \A i \in 1..Len(muts) : muts[i].pc = "success"

\* C25: after a sequence of toggle clicks all of whose network calls have
\* succeeded, the cached flag of every key equals the server state of that
\* key (the row exists), clicks made while an earlier mutation was pending
\* included.
C25_FlagEqualsServerAfterSuccess ==
  AllSucceeded => \A k \in Keys : flagOf(k, cache[k]) = server[k]

followRow(u) == store.follows[<<u, "owner">>] >= 1

bookmarkRow(u) == store.bookmarks[<<u, ThePost>>] >= 1

\* C26: after any sequence of like and unlike (follow and unfollow)
\* requests the store holds at most one LIKE (FOLLOW) notification of a
\* user for the target, and it holds one exactly when the like (follow) row
\* exists and the issuer is not the recipient.
C26_OneNotificationPerRow ==
  \A u \in Users :
    /\ store.notifications[<<"LIKE", u>>] <= 1
    /\ store.notifications[<<"LIKE", u>>] = 1 <=> (likeRow(u) /\ u # "owner")
    /\ store.notifications[<<"FOLLOW", u>>] <= 1
    /\ store.notifications[<<"FOLLOW", u>>] = 1 <=> (followRow(u) /\ u # "owner")

RelationRoutes == {"likes", "bookmark", "followers"}

\* the rows of the pair of the user of the last request, in the relation
\* of its route
RowsOfLast ==
  LET pair == <<lastApi.user, lastApi.target>>
      rowsOf(table) == IF pair \in DOMAIN table THEN table[pair] ELSE 0
  IN CASE lastApi.route = "likes"     -> rowsOf(store.likes)
       [] lastApi.route = "bookmark"  -> rowsOf(store.bookmarks)
       [] lastApi.route = "followers" -> rowsOf(store.follows)

\* C27: the like, follow and bookmark POST requests are idempotent on the
\* relation rows: after any sequence of POST and DELETE requests there is
\* at most one row per (user, target) pair, after a POST that succeeded,
\* the first or a repeated one, the pair has exactly one row, and after a
\* DELETE that succeeded the pair has none.
C27_PostIdempotentOnRows ==
  /\ \A p \in LikePairs : store.likes[p] <= 1 /\ store.bookmarks[p] <= 1
  /\ \A p \in FollowPairs : store.follows[p] <= 1
  /\ (lastApi.route \in RelationRoutes /\ lastApi.status = 200 /\ lastApi.method = "POST")
       => RowsOfLast = 1
  /\ (lastApi.route \in RelationRoutes /\ lastApi.status = 200 /\ lastApi.method = "DELETE")
       => RowsOfLast = 0

\* a repeated bookmark POST that succeeded and changed nothing, with the
\* like row and the follow row of the same user present
C27_Witness ==
  /\ lastApi.route = "bookmark" /\ lastApi.method = "POST" /\ lastApi.status = 200
  /\ lastApi.target = ThePost /\ ~lastApi.changed /\ bookmarkRow("other")
  /\ likeRow("other") /\ followRow("other")
  /\ store.notifications[<<"LIKE", "other">>] = 2

\* C29: the upload cleanup deletes only media records linked to no post:
\* no step removes a record that is attached to a post in the state the
\* step starts from, a post submission attaching the record while the
\* cleanup runs included; a request without the valid secret deletes
\* nothing.
C29_AttachedMediaNeverDeleted ==
  [][/\ \A m \in store.media :
          m.id \notin {n.id : n \in store'.media} => m.postId = NoPost
     /\ (lastApi' # lastApi /\ lastApi'.route = "clear-uploads" /\ ~lastApi'.secret)
          => store'.media = store.media]_vars

\* C22: a mark-as-read request that succeeds sets read on every unread
\* notification of the requesting user and changes no notification of
\* another recipient (one that fails changes none); an unread-count
\* request of a user whose notifications were marked as read, with no
\* notification created for the user since, returns 0, the value the
\* client's onSuccess writes into its unread-notification-count cache.
C22_MarkAsReadOwnOnly ==
  [][LET l == inbox'.last
         mine(n) == n.recipientId = l.user
     IN /\ (l.route = "mark-as-read" /\ l.status = 200) =>
             inbox'.notifications =
               {IF mine(n) THEN [n EXCEPT !.read = TRUE] ELSE n : n \in inbox.notifications}
        /\ (l.route = "mark-as-read" /\ l.status # 200) =>
             inbox'.notifications = inbox.notifications
        /\ (l.route = "unread-count" /\ l.status = 200 /\ inbox.fresh[l.user]) =>
             l.unreadCount = 0
        /\ (inbox'.pc = "success" /\ inbox.pc # "success") => inbox'.unreadCount = 0
        /\ (inbox'.pc = "success" /\ inbox'.fresh[PageUser]) =>
             unreadCountGET(inbox'.notifications, PageUser, 0).unreadCount = inbox'.unreadCount
       ]_vars

\* the page's mark-as-read has succeeded and written 0, an unread-count
\* request of the same user has answered 0, and an unread notification of
\* the other user is still unread
C22_Witness ==
  /\ inbox.pc = "success" /\ inbox.unreadCount = 0 /\ inbox.fresh[PageUser]
  /\ inbox.last = [route |-> "unread-count", user |-> PageUser, status |-> 200, unreadCount |-> 0]
  /\ \E n \in inbox.notifications : n.recipientId = PageUser /\ n.read
  /\ unread(inbox.notifications, "other") # {}

\* the row of the last delete request, in the table it is about
Target(table) == {e \in table : e.id = entities'.last.id}

\* C21: deletePost and deleteComment delete the entity only when the
\* requester is its author: then that row and no other leaves the store;
\* a request of another user, of no user or for a missing entity raises an
\* error and leaves the store unchanged.
C21_OnlyAuthorDeletes ==
  [][LET l == entities'.last
         table == IF l.op = "deletePost" THEN entities.posts ELSE entities.comments
         after == IF l.op = "deletePost" THEN entities'.posts ELSE entities'.comments
         byAuthor == \E e \in Target(table) : e.userId = l.user
     IN /\ l.result = "deleted" => byAuthor /\ after = table \ Target(table)
        /\ l.result # "deleted" => after = table
        /\ ~byAuthor => l.result \notin {"deleted", "none"}
        /\ l.op = "deletePost" => entities'.comments = entities.comments
        /\ l.op = "deleteComment" => entities'.posts = entities.posts
       ]_vars

\* the other user's request to delete a post of the owner was refused and
\* the post is still there
C21_Witness ==
  /\ entities.last.op = "deletePost" /\ entities.last.result = "Unauthorized"
  /\ entities.last.user = "other"
  /\ \E e \in entities.posts : e.id = entities.last.id /\ e.userId = "owner"
  /\ Cardinality(entities.comments) < MaxEntities
  /\ Cardinality(entities.posts) = MaxEntities

\* C23: the attachment list of useMediaUpload never holds more than 5
\* attachments and no upload is started while an earlier one is in
\* progress: startUpload refuses a call made while uploading and a call
\* that would exceed 5, each with an error notification, and leaves the
\* attachment list as it is.
C23_AtMostFiveOneUploadAtATime ==
  [][LET l == upload'.last
     IN /\ Len(upload'.attachments) <= MaxAttachments
        /\ Cardinality(upload'.inFlight) <= 1
        /\ (l.call = "startUpload" /\ l.outcome = "started") => ~upload.isUploading /\ upload.inFlight = {}
        /\ (l.call = "startUpload" /\ l.outcome \in {"busy", "limit"}) =>
             /\ upload'.attachments = upload.attachments
             /\ upload'.inFlight = upload.inFlight
             /\ l.toast # "none"
        /\ (l.call = "startUpload" /\ upload.isUploading) => l.outcome = "busy"
        /\ (l.call = "startUpload" /\ ~upload.isUploading) =>
             (l.outcome = "limit" <=> Len(upload.attachments) + l.files > MaxAttachments)
       ]_vars

\* five attachments are in the list, two of them still uploading, and a
\* call of startUpload was refused because an upload is in progress
C23_Witness ==
  /\ Len(upload.attachments) = MaxAttachments
  /\ upload.isUploading /\ upload.inFlight # {}
  /\ upload.last.call = "startUpload" /\ upload.last.outcome = "busy"
  /\ \E i \in 1..Len(upload.attachments) : ~upload.attachments[i].isUploading

\* C24: useInitializeChatClient returns a chat client that is not null
\* only when connectUser of the current run of the effect has connected
\* the user; when connectUser fails the chat client stays null.
C24_ClientOnlyWhenConnected ==
  chat.chatClient # "null" =>
    /\ chat.runs # <<>>
    /\ chat.runs[Len(chat.runs)].connectUser = "connected"

====
